---- MODULE Spec2Model ----
(***************************************************************************)
(* Canonicalizer, anchor builder and plan validator of the EDGAR filing    *)
(* pipeline (src/src/edgar_filing_pipeline).  Text is a sequence of        *)
(* one-character strings; program indices are 0-based as in the source.    *)
(***************************************************************************)
EXTENDS Integers, Sequences, FiniteSets, TLC

VARIABLES
    pc,                   \* position of the driver in the current run
    raw_text,             \* _Canonicalizer.raw_text
    treat_as_html,        \* _Canonicalizer.treat_as_html
    i,                    \* scan index of _process_html
    canonical_chars,      \* _Canonicalizer.canonical_chars
    char_sources,         \* _Canonicalizer.char_sources
    pending_block_break,  \* _Canonicalizer._pending_block_break
    last_was_space,       \* _Canonicalizer._last_was_space
    skip_stack,           \* _Canonicalizer._skip_stack
    text,                 \* CanonicalizationResult.text
    again,                \* text of canonicalize(text, treat_as_html=False)
    chunk_size,           \* build_anchors(chunk_size=...)
    anchors,              \* AnchorMap.anchors, or the ValueError raised
    ordered,              \* validate_plan: list(sentence_ids)
    plan,                 \* validate_plan: the plan mapping
    errors,               \* validate_plan: the returned error list
    raised,               \* validate_plan: the exception that escaped, or ""
    paragraph,            \* _split_sentences: text
    base_offset,          \* _split_sentences: base_offset
    split_start,          \* _split_sentences: start
    split_i,              \* _split_sentences: i
    sentences,            \* _split_sentences: the spans found so far
    grid,                 \* _classify_structured_table: grid
    classification,       \* _classify_structured_table: the returned class
    header,               \* detect_binary_segment: header
    raw_html,             \* detect_binary_segment: html
    skip_reason,          \* the reason returned by the filter, <<>> for None
    document,             \* build_prompt_view: canonical_document
    view_i,               \* build_prompt_view: position in canonical_document.anchors
    lines,                \* build_prompt_view: lines
    prompt_view,          \* the text returned by build_prompt_view
    view_error,           \* the exception raised by build_prompt_view, or ""
    called,               \* the function run: extract_from_manifest or normalize_from_manifest
    manifest,             \* the manifest rows
    filter_fn,            \* extract_from_manifest: filter_fn
    row_i,                \* position of the per-row loop in the manifest
    readers,              \* readers: tar path -> state of its TarSegmentReader
    extractors,           \* extractors: the (tar path, file) keys cached
    records,              \* records
    exit_with,            \* "" while running, "return", or the exception that left the function
    client,               \* the call made: create_response or run_prompt
    budget,               \* max_retries of the client, max_attempts of the runner
    attempt,              \* create_response: attempt; run_prompt: iterations of the loop done
    responses,            \* the outcome of every request issued, in order
    last_error,           \* create_response: error; run_prompt: last_error
    outcome,              \* "" while the call runs, "return" or "RuntimeError"
    reported,             \* the attempts and the error named in the RuntimeError
    tr_rows,              \* _process_structured_table: rows, each cell with its text and spans
    row_idx,              \* row_idx
    td_idx,               \* cells of the row already placed
    col_idx,              \* col_idx
    row_cells,            \* cells
    span_map,             \* spans: (row, col) -> (rowspan, colspan, text)
    raw_grid,             \* raw_grid
    max_cols,             \* max_cols
    text_block,           \* the text block returned
    elements,             \* build: the blocks _iter_blocks yields
    element_i,            \* blocks already taken
    chunk_list,           \* chunks
    offset,               \* offset
    paragraph_segments,   \* paragraph_segments
    table_idx,            \* table_index
    doc_text,             \* canonical_text
    paragraph_records,    \* paragraph_records
    sentence_records,     \* sentence_records
    doc_anchors,          \* anchors of the CanonicalDocument
    build_raised,         \* the exception build raises, or ""
    para_spans,           \* build_anchors: paragraph_spans
    scan_cursor,          \* _iter_paragraph_spans: cursor
    span_start,           \* _iter_paragraph_spans: start
    span_i,               \* paragraph spans already taken
    chunk_cursor,         \* _chunk_offsets: cursor
    chunk_stop,            \* _chunk_offsets: chunk_end
    advance_index,        \* _advance_to_boundary: index
    advance_from,         \* _advance_to_boundary: candidate
    pending_anchor,       \* _make_anchor: its arguments
    window_i,             \* _collect_source_spans: place in char_sources
    window_spans,         \* _collect_source_spans: spans
    window_current,       \* _collect_source_spans: current
    collected,            \* anchors, before the sort
    next_paragraph_no,    \* paragraph_counter
    next_chunk_no,        \* chunk_counter
    job_table,            \* JobStore._records: job id -> JobRecord
    store_lock,           \* JobStore._lock: its owner
    loop_pc,              \* the event loop: the JobStore call it is in
    loop_arg,             \* the job id of that call
    loop_got,             \* what JobStore.get returned last
    worker_pc,            \* _process_job of each job: where it is
    worker_changes,       \* JobStore.update: changes not yet set
    worker_step,          \* the call of the try block a job is at
    worker_exc            \* str(exc) of the exception caught

vars == <<pc, raw_text, treat_as_html, i, canonical_chars, char_sources,
          pending_block_break, last_was_space, skip_stack, text, again,
          chunk_size, anchors, ordered, plan, errors, raised,
          paragraph, base_offset, split_start, split_i, sentences,
          grid, classification,
          header, raw_html, skip_reason,
          document, view_i, lines, prompt_view, view_error,
          called, manifest, filter_fn, row_i, readers, extractors, records, exit_with,
          client, budget, attempt, responses, last_error, outcome, reported,
          tr_rows, row_idx, td_idx, col_idx, row_cells, span_map, raw_grid, max_cols, text_block,
          elements, element_i, chunk_list, offset, paragraph_segments, table_idx, doc_text, paragraph_records, sentence_records, doc_anchors, build_raised,
          para_spans, scan_cursor, span_start, span_i, chunk_cursor, chunk_stop, advance_index, advance_from, pending_anchor, window_i, window_spans, window_current, collected, next_paragraph_no, next_chunk_no,
          job_table, store_lock, loop_pc, loop_arg, loop_got, worker_pc, worker_changes, worker_step, worker_exc>>

canonVars == <<raw_text, treat_as_html, i, canonical_chars, char_sources,
               pending_block_break, last_was_space, skip_stack, text, again>>
anchorVars == <<chunk_size, anchors>>
planVars == <<ordered, plan, errors, raised>>

sentenceVars == <<paragraph, base_offset, split_start, split_i, sentences>>
SentenceIdle ==
    /\ paragraph = <<>>
    /\ base_offset = 0
    /\ split_start = 0
    /\ split_i = 0
    /\ sentences = <<>>

tableVars == <<grid, classification>>
TableIdle ==
    /\ grid = <<>>
    /\ classification = ""

filterVars == <<header, raw_html, skip_reason>>
FilterIdle ==
    /\ header = <<>>
    /\ raw_html = <<>>
    /\ skip_reason = <<>>

viewVars == <<document, view_i, lines, prompt_view, view_error>>
ViewIdle ==
    /\ document = [text |-> <<>>, anchors |-> <<>>]
    /\ view_i = 0
    /\ lines = <<>>
    /\ prompt_view = <<>>
    /\ view_error = ""

readerVars == <<called, manifest, filter_fn, row_i, readers, extractors, records, exit_with>>
ReaderIdle ==
    /\ called = "Idle"
    /\ manifest = <<>>
    /\ filter_fn = "Idle"
    /\ row_i = 0
    /\ readers = <<>>
    /\ extractors = {}
    /\ records = <<>>
    /\ exit_with = ""

retryVars == <<client, budget, attempt, responses, last_error, outcome, reported>>
RetryIdle ==
    /\ client = "Idle"
    /\ budget = 0
    /\ attempt = 0
    /\ responses = <<>>
    /\ last_error = "None"
    /\ outcome = ""
    /\ reported = <<>>

structuredVars == <<tr_rows, row_idx, td_idx, col_idx, row_cells, span_map, raw_grid, max_cols, text_block>>
StructuredIdle ==
    /\ tr_rows = <<>>
    /\ row_idx = 0
    /\ td_idx = 0
    /\ col_idx = 0
    /\ row_cells = <<>>
    /\ span_map = <<>>
    /\ raw_grid = <<>>
    /\ max_cols = 0
    /\ text_block = <<>>

buildVars == <<elements, element_i, chunk_list, offset, paragraph_segments, table_idx, doc_text, paragraph_records, sentence_records, doc_anchors, build_raised>>
BuildIdle ==
    /\ elements = <<>>
    /\ element_i = 0
    /\ chunk_list = <<>>
    /\ offset = 0
    /\ paragraph_segments = <<>>
    /\ table_idx = 0
    /\ doc_text = <<>>
    /\ paragraph_records = <<>>
    /\ sentence_records = <<>>
    /\ doc_anchors = <<>>
    /\ build_raised = ""

chunkVars == <<para_spans, scan_cursor, span_start, span_i, chunk_cursor, chunk_stop, advance_index, advance_from, pending_anchor, window_i, window_spans, window_current, collected, next_paragraph_no, next_chunk_no>>
ChunkIdle ==
    /\ para_spans = <<>>
    /\ scan_cursor = 0
    /\ span_start = 0
    /\ span_i = 0
    /\ chunk_cursor = 0
    /\ chunk_stop = 0
    /\ advance_index = 0
    /\ advance_from = 0
    /\ pending_anchor = [prefix |-> "", counter |-> 0, kind |-> "", start |-> 0, end |-> 0]
    /\ window_i = 0
    /\ window_spans = <<>>
    /\ window_current = 0
    /\ collected = <<>>
    /\ next_paragraph_no = 0
    /\ next_chunk_no = 0

jobVars == <<job_table, store_lock, loop_pc, loop_arg, loop_got, worker_pc, worker_changes, worker_step, worker_exc>>
JobIdle ==
    /\ job_table = <<>>
    /\ store_lock = <<>>
    /\ loop_pc = "idle"
    /\ loop_arg = 0
    /\ loop_got = <<>>
    /\ worker_pc = <<>>
    /\ worker_changes = <<>>
    /\ worker_step = <<>>
    /\ worker_exc = <<>>

----------------------------------------------------------------------------
(* Bounds of the explored inputs.                                          *)

MaxFragments == 3
MaxChunkSize == 2
MaxAnchors == 3
MaxSegments == 2
MaxLayoutFragments == 5
MaxJsonSegments == 1

----------------------------------------------------------------------------
(* Characters.                                                             *)

LF == "\n"
CR == "\r"
TAB == "\t"
FF == "\f"
ZWSP == "U+200B"
NBSP == "U+00A0"
RSQUO == "U+2019"
EMPTY == ""

Min(a, b) == IF a < b THEN a ELSE b

UpperLetters == <<"A","B","C","D","E","F","G","H","I","J","K","L","M",
                  "N","O","P","Q","R","S","T","U","V","W","X","Y","Z">>
LowerLetters == <<"a","b","c","d","e","f","g","h","i","j","k","l","m",
                  "n","o","p","q","r","s","t","u","v","w","x","y","z">>
Digits == {"0","1","2","3","4","5","6","7","8","9"}

Range(s) == {s[k] : k \in DOMAIN s}

\* str.isspace() of one character
IsSpace(c) == c \in {" ", LF, CR, TAB, FF, NBSP}
\* str.isalnum() of one character
IsAlnum(c) == c \in Range(UpperLetters) \cup Range(LowerLetters) \cup Digits
\* str.lower() of one character
Lower(c) ==
    IF c \in Range(UpperLetters)
    THEN LowerLetters[CHOOSE k \in DOMAIN UpperLetters : UpperLetters[k] = c]
    ELSE c

\* s[k] for a 0-based index k
At(s, k) == s[k + 1]
\* s[a:b] for 0 <= a
Slice(s, a, b) == SubSeq(s, a + 1, Min(b, Len(s)))
\* s.find(c, lo, hi)
Find(s, c, lo, hi) ==
    LET hits == {k \in lo .. (Min(hi, Len(s)) - 1) : At(s, k) = c}
    IN  IF hits = {} THEN -1 ELSE CHOOSE k \in hits : \A m \in hits : k <= m
\* s.startswith(prefix, index)
StartsWith(s, prefix, index) ==
    /\ index + Len(prefix) <= Len(s)
    /\ \A k \in 1 .. Len(prefix) : s[index + k] = prefix[k]

\* s.find(sub, lo) for a sequence sub
FindSeq(s, sub, lo) ==
    LET hits == {k \in lo .. (Len(s) - Len(sub)) : StartsWith(s, sub, k)}
    IN  IF hits = {} THEN -1 ELSE CHOOSE k \in hits : \A m \in hits : k <= m

RECURSIVE JoinStr(_)
\* "".join(chars) as one string
JoinStr(chars) ==
    IF chars = <<>> THEN "" ELSE Head(chars) \o JoinStr(Tail(chars))

\* "".join(chars) as a sequence of characters
Join(chars) == SelectSeq(chars, LAMBDA c : c # EMPTY)

----------------------------------------------------------------------------
(* canonicalizer.py: tables.                                               *)

SMART_PUNCTUATION_MAP ==
    (RSQUO :> "'") @@ (NBSP :> " ") @@ (ZWSP :> EMPTY)

BLOCK_TAGS ==
    {"article", "aside", "blockquote", "div", "dl", "dt", "dd", "footer",
     "form", "h1", "h2", "h3", "h4", "h5", "h6", "header", "hr", "li", "nav",
     "ol", "p", "pre", "section", "table", "tbody", "thead", "tfoot", "tr",
     "ul"}

LINE_BREAK_TAGS == {"br"}
SKIP_CONTENT_TAGS == {"script", "style", "noscript"}

EntityWindow == 32

NoToken == [name |-> "None", is_start |-> FALSE, is_self_closing |-> FALSE,
            none |-> TRUE]
TagToken(name, is_start, is_self_closing) ==
    [name |-> name, is_start |-> is_start,
     is_self_closing |-> is_self_closing, none |-> FALSE]

None == [source_id |-> "None", start |-> 0, end |-> 0]
CanonicalCharSource(start, end) ==
    [source_id |-> "source", start |-> start, end |-> end]

----------------------------------------------------------------------------
(* html.unescape, as called at canonicalizer.py:256.  HTML5 lists the      *)
(* character references whose names can be formed from the explored        *)
(* characters; a name is a sequence of characters, ";" included.           *)

HTML5 ==
    (<<"l","t",";">> :> <<"<">>) @@ (<<"l","t">> :> <<"<">>) @@
    (<<"g","t",";">> :> <<">">>) @@ (<<"g","t">> :> <<">">>) @@
    (<<"a","m","p",";">> :> <<"&">>) @@ (<<"a","m","p">> :> <<"&">>) @@
    (<<"n","b","s","p",";">> :> <<NBSP>>) @@ (<<"n","b","s","p">> :> <<NBSP>>)

\* characters that cannot occur in a named reference: [^\t\n\f <&#;]
NameStop == {TAB, LF, FF, " ", "<", "&", "#", ";"}

RECURSIVE NameRun(_, _, _)
\* end index of the greedy run [^\t\n\f <&#;]{0,32} starting at index k
NameRun(s, k, n) ==
    IF k < Len(s) /\ n < 32 /\ At(s, k) \notin NameStop
    THEN NameRun(s, k + 1, n + 1)
    ELSE k

\* html._replace_charref for a named reference s (without the leading "&")
ReplaceCharref(s) ==
    IF s \in DOMAIN HTML5 THEN HTML5[s]
    ELSE LET xs == {x \in 2 .. (Len(s) - 1) : SubSeq(s, 1, x) \in DOMAIN HTML5}
         IN  IF xs = {} THEN <<"&">> \o s
             ELSE LET x == CHOOSE y \in xs : \A z \in xs : z <= y
                  IN  HTML5[SubSeq(s, 1, x)] \o SubSeq(s, x + 1, Len(s))

RECURSIVE UnescapeFrom(_, _)
UnescapeFrom(s, k) ==
    IF k >= Len(s) THEN <<>>
    ELSE IF At(s, k) # "&" THEN <<At(s, k)>> \o UnescapeFrom(s, k + 1)
    ELSE LET run == NameRun(s, k + 1, 0)
             stop == IF run < Len(s) /\ At(s, run) = ";" THEN run + 1 ELSE run
         IN  IF run = k + 1
             THEN <<"&">> \o UnescapeFrom(s, k + 1)
             ELSE ReplaceCharref(Slice(s, k + 1, stop)) \o UnescapeFrom(s, stop)

\* html.unescape(s)
Unescape(s) == UnescapeFrom(s, 0)

----------------------------------------------------------------------------
(* canonicalizer.py: _Canonicalizer.  The operators take and return the    *)
(* object's mutable fields as a record self.                               *)

\* _Canonicalizer.__init__
NewCanonicalizer(html) ==
    [convert_newlines_to_space |-> html,
     canonical_chars |-> <<>>, char_sources |-> <<>>,
     pending_block_break |-> FALSE, last_was_space |-> FALSE,
     skip_stack |-> <<>>]

Last(s) == s[Len(s)]
Pop(s) == SubSeq(s, 1, Len(s) - 1)

RECURSIVE StripTrailingSpaces(_)
StripTrailingSpaces(self) ==
    IF self.canonical_chars # <<>> /\ Last(self.canonical_chars) = " "
    THEN StripTrailingSpaces(
             [self EXCEPT !.canonical_chars = Pop(@), !.char_sources = Pop(@)])
    ELSE self

AppendNewline(self, source) ==
    [self EXCEPT !.canonical_chars = Append(@, LF),
                 !.char_sources = Append(@, source)]

ApplyPendingParagraphBreak(self) ==
    IF ~self.pending_block_break THEN self
    ELSE LET s1 == StripTrailingSpaces(self)
         IN  IF s1.canonical_chars = <<>>
             THEN [s1 EXCEPT !.pending_block_break = FALSE]
             ELSE LET s2 == AppendNewline(s1, None)
                      n == Len(s2.canonical_chars)
                      s3 == IF n < 2 \/ s2.canonical_chars[n - 1] # LF
                            THEN AppendNewline(s2, None)
                            ELSE s2
                  IN  [s3 EXCEPT !.last_was_space = FALSE,
                                 !.pending_block_break = FALSE]

EmitNewline(self, source) ==
    LET s1 == ApplyPendingParagraphBreak(self)
    IN  IF s1.canonical_chars # <<>> /\ Last(s1.canonical_chars) = LF
        THEN s1
        ELSE [AppendNewline(StripTrailingSpaces(s1), source)
                  EXCEPT !.last_was_space = FALSE]

EmitSpace(self, source) ==
    IF self.pending_block_break THEN self
    ELSE IF self.canonical_chars = <<>> THEN self
    ELSE IF Last(self.canonical_chars) = LF THEN self
    ELSE IF self.last_was_space THEN self
    ELSE [self EXCEPT !.canonical_chars = Append(@, " "),
                      !.char_sources = Append(@, source),
                      !.last_was_space = TRUE]

SmartPunctuation(char) ==
    IF char \in DOMAIN SMART_PUNCTUATION_MAP
    THEN SMART_PUNCTUATION_MAP[char]
    ELSE char

EmitCharacter(self, char, source) ==
    IF char = EMPTY THEN self
    ELSE LET normalized == SmartPunctuation(char)
         IN  IF normalized \in {CR, LF}
             THEN IF self.convert_newlines_to_space
                  THEN EmitSpace(self, source)
                  ELSE EmitNewline(self, source)
             ELSE IF IsSpace(normalized) THEN EmitSpace(self, source)
             ELSE LET s1 == ApplyPendingParagraphBreak(self)
                  IN  [s1 EXCEPT !.canonical_chars = Append(@, normalized),
                                 !.char_sources = Append(@, source),
                                 !.last_was_space = FALSE]

MarkBlockBreak(self) ==
    [self EXCEPT !.pending_block_break = TRUE, !.last_was_space = FALSE]

RECURSIVE TrimTrailingLayout(_)
TrimTrailingLayout(self) ==
    IF self.canonical_chars # <<>> /\ Last(self.canonical_chars) \in {" ", LF}
    THEN TrimTrailingLayout(
             [self EXCEPT !.canonical_chars = Pop(@), !.char_sources = Pop(@)])
    ELSE self

RECURSIVE EmitAll(_, _, _)
\* the loop "for resolved_char in unescaped" of _append_text_segment
EmitAll(self, chars, source) ==
    IF chars = <<>> THEN self
    ELSE EmitAll(EmitCharacter(self, Head(chars), source), Tail(chars), source)

RECURSIVE AppendTextSegment(_, _, _, _)
AppendTextSegment(self, raw, pos, end) ==
    IF pos >= end THEN self
    ELSE LET entity_end ==
                 IF At(raw, pos) = "&"
                 THEN Find(raw, ";", pos + 1, Min(end, pos + EntityWindow))
                 ELSE -1
             entity == Slice(raw, pos, entity_end + 1)
             unescaped == Unescape(entity)
         IN  IF entity_end # -1 /\ unescaped # entity
             THEN AppendTextSegment(
                      EmitAll(self, unescaped,
                              CanonicalCharSource(pos, entity_end + 1)),
                      raw, entity_end + 1, end)
             ELSE AppendTextSegment(
                      EmitCharacter(self, At(raw, pos),
                                    CanonicalCharSource(pos, pos + 1)),
                      raw, pos + 1, end)

RECURSIVE AppendTextSegmentPlain(_, _, _, _)
AppendTextSegmentPlain(self, txt, pos, end) ==
    IF pos >= end THEN self
    ELSE AppendTextSegmentPlain(
             EmitCharacter(self, At(txt, pos),
                           CanonicalCharSource(pos, pos + 1)),
             txt, pos + 1, end)

RECURSIVE ReplaceCRLF(_)
\* raw_text.replace("\r\n", "\n").replace("\r", "\n")
ReplaceCRLF(s) ==
    IF s = <<>> THEN <<>>
    ELSE IF Len(s) >= 2 /\ s[1] = CR /\ s[2] = LF
         THEN <<LF>> \o ReplaceCRLF(SubSeq(s, 3, Len(s)))
    ELSE IF s[1] = CR THEN <<LF>> \o ReplaceCRLF(Tail(s))
    ELSE <<s[1]>> \o ReplaceCRLF(Tail(s))

ProcessPlainText(self, raw) ==
    LET txt == ReplaceCRLF(raw)
    IN  AppendTextSegmentPlain(self, txt, 0, Len(txt))

----------------------------------------------------------------------------
(* canonicalizer.py: tag parsing and the scan loop of _process_html.       *)

RECURSIVE SkipSpaces(_, _)
\* while j < self.length and self.raw_text[j].isspace(): j += 1
SkipSpaces(raw, j) ==
    IF j < Len(raw) /\ IsSpace(At(raw, j)) THEN SkipSpaces(raw, j + 1) ELSE j

RECURSIVE SkipName(_, _)
SkipName(raw, j) ==
    IF j < Len(raw) /\ (IsAlnum(At(raw, j)) \/ At(raw, j) \in {"-", "_", ":"})
    THEN SkipName(raw, j + 1)
    ELSE j

RECURSIVE SkipAttributes(_, _)
\* while attr_index < self.length and self.raw_text[attr_index] != ">"
SkipAttributes(raw, attr_index) ==
    IF attr_index < Len(raw) /\ At(raw, attr_index) # ">"
    THEN SkipAttributes(raw, attr_index + 1)
    ELSE attr_index

RECURSIVE BackOverSpaces(_, _, _)
\* while cursor > index and self.raw_text[cursor].isspace(): cursor -= 1
BackOverSpaces(raw, cursor, index) ==
    IF cursor > index /\ IsSpace(At(raw, cursor))
    THEN BackOverSpaces(raw, cursor - 1, index)
    ELSE cursor

LowerName(chars) == JoinStr([k \in DOMAIN chars |-> Lower(chars[k])])

\* _parse_tag without the check of find's -1 for an unterminated comment
ParseTagUncheckedFind(raw, index) ==
    IF StartsWith(raw, <<"<", "!", "-", "-">>, index)
    THEN [token |-> NoToken,
          new_index |-> FindSeq(raw, <<"-", "-", ">">>, index + 4) + 3]
    ELSE [token |-> NoToken, new_index |-> Len(raw)]

\* _parse_tag(index): the token (or NoToken) and the index to resume at
ParseTag(raw, index) ==
    IF StartsWith(raw, <<"<", "!", "-", "-">>, index)
    THEN LET end == FindSeq(raw, <<"-", "-", ">">>, index + 4)
         IN  IF end = -1
             THEN [token |-> NoToken, new_index |-> Len(raw)]
             ELSE [token |-> NoToken, new_index |-> end + 3]
    ELSE LET j0 == SkipSpaces(raw, index + 1)
         IN  IF j0 >= Len(raw)
             THEN [token |-> NoToken, new_index |-> Len(raw)]
             ELSE LET is_start == At(raw, j0) # "/"
                      name_start == IF is_start THEN j0 ELSE j0 + 1
                      j == SkipName(raw, name_start)
                      name == LowerName(Slice(raw, name_start, j))
                      attr_index == SkipAttributes(raw, j)
                  IN  IF attr_index >= Len(raw)
                      THEN [token |-> NoToken, new_index |-> Len(raw)]
                      ELSE LET cursor == BackOverSpaces(raw, attr_index - 1, index)
                               is_self_closing ==
                                   cursor > index /\ At(raw, cursor) = "/"
                           IN  [token |-> TagToken(name, is_start, is_self_closing),
                                new_index |-> attr_index + 1]

HandleTag(self, token) ==
    IF token.is_start /\ token.name \in SKIP_CONTENT_TAGS
    THEN [self EXCEPT !.skip_stack = Append(@, token.name)]
    ELSE LET s1 == IF token.name \in BLOCK_TAGS THEN MarkBlockBreak(self)
                   ELSE self
         IN  IF token.is_start /\ token.name \in LINE_BREAK_TAGS
             THEN EmitNewline(s1, None)
             ELSE IF ~token.is_start /\ s1.skip_stack # <<>>
                     /\ token.name = Last(s1.skip_stack)
                  THEN [s1 EXCEPT !.skip_stack = Pop(@)]
                  ELSE s1

\* one iteration of the while loop of _process_html at scan index k
ProcessHtmlStep(self, raw, k) ==
    IF self.skip_stack # <<>>
    THEN IF At(raw, k) = "<"
         THEN LET parsed == ParseTag(raw, k)
                  token == parsed.token
              IN  [self |-> IF ~token.none /\ ~token.is_start
                               /\ token.name = Last(self.skip_stack)
                            THEN [self EXCEPT !.skip_stack = Pop(@)]
                            ELSE self,
                   i |-> parsed.new_index]
         ELSE [self |-> self, i |-> k + 1]
    ELSE IF At(raw, k) = "<"
         THEN LET parsed == ParseTag(raw, k)
              IN  [self |-> IF ~parsed.token.none
                            THEN HandleTag(self, parsed.token)
                            ELSE self,
                   i |-> parsed.new_index]
         ELSE LET found == Find(raw, "<", k, Len(raw))
                  next_tag == IF found = -1 THEN Len(raw) ELSE found
              IN  [self |-> AppendTextSegment(self, raw, k, next_tag),
                   i |-> next_tag]

RECURSIVE ProcessHtmlFrom(_, _, _)
ProcessHtmlFrom(self, raw, k) ==
    IF k >= Len(raw) THEN self
    ELSE LET step == ProcessHtmlStep(self, raw, k)
         IN  ProcessHtmlFrom(step.self, raw, step.i)

ProcessHtml(self, raw) == ProcessHtmlFrom(self, raw, 0)

\* _Canonicalizer.run: the CanonicalizationResult
Run(self, raw, html) ==
    LET processed == IF html THEN ProcessHtml(self, raw)
                     ELSE ProcessPlainText(self, raw)
        trimmed == TrimTrailingLayout(processed)
    IN  [text |-> Join(trimmed.canonical_chars),
         char_sources |-> trimmed.char_sources]

canonicalize(raw, html) == Run(NewCanonicalizer(html), raw, html)

----------------------------------------------------------------------------
(* document_prep/anchoring.py                                              *)

AdvanceLimit == 200

SourceSpan(start, end) == [source_id |-> "source", start |-> start, end |-> end]

RECURSIVE SkipNewlines(_, _)
\* while cursor < length and text[cursor] == "\n": cursor += 1
SkipNewlines(txt, cursor) ==
    IF cursor < Len(txt) /\ At(txt, cursor) = LF
    THEN SkipNewlines(txt, cursor + 1)
    ELSE cursor

RECURSIVE ParagraphEnd(_, _)
\* the inner loop of _iter_paragraph_spans: stop at a blank line or the end
ParagraphEnd(txt, cursor) ==
    IF cursor < Len(txt)
       /\ ~(At(txt, cursor) = LF /\ cursor + 1 < Len(txt)
            /\ At(txt, cursor + 1) = LF)
    THEN ParagraphEnd(txt, cursor + 1)
    ELSE cursor

\* a generator that stops after the first paragraph
IterParagraphSpansFirstOnly(txt, cursor) ==
    IF cursor >= Len(txt) THEN <<>>
    ELSE LET start == SkipNewlines(txt, cursor)
         IN  IF start >= Len(txt) THEN <<>>
             ELSE <<[start |-> start, end |-> ParagraphEnd(txt, start)]>>

RECURSIVE IterParagraphSpansFrom(_, _)
IterParagraphSpansFrom(txt, cursor) ==
    IF cursor >= Len(txt) THEN <<>>
    ELSE LET start == SkipNewlines(txt, cursor)
         IN  IF start >= Len(txt) THEN <<>>
             ELSE LET end == ParagraphEnd(txt, start)
                  IN  <<[start |-> start, end |-> end]>>
                      \o IterParagraphSpansFrom(txt, SkipNewlines(txt, end))

\* _iter_paragraph_spans(text)
IterParagraphSpans(txt) == IterParagraphSpansFrom(txt, 0)

RECURSIVE AdvanceFrom(_, _, _, _)
AdvanceFrom(txt, index, candidate, upper_bound) ==
    IF index < upper_bound /\ ~IsSpace(At(txt, index))
    THEN IF (index + 1) - candidate > AdvanceLimit
         THEN index + 1
         ELSE AdvanceFrom(txt, index + 1, candidate, upper_bound)
    ELSE index

\* _advance_to_boundary(text, candidate, upper_bound)
AdvanceToBoundary(txt, candidate, upper_bound) ==
    LET index == AdvanceFrom(txt, candidate, candidate, upper_bound)
    IN  IF index > candidate THEN index ELSE candidate

RECURSIVE ChunkOffsetsFrom(_, _, _, _)
ChunkOffsetsFrom(txt, cursor, end, size) ==
    IF cursor >= end THEN <<>>
    ELSE LET cut == Min(end, cursor + size)
             chunk_end == IF cut < end THEN AdvanceToBoundary(txt, cut, end)
                          ELSE cut
         IN  <<[start |-> cursor, end |-> chunk_end]>>
             \o (IF chunk_end = end THEN <<>>
                 ELSE ChunkOffsetsFrom(txt, chunk_end, end, size))

\* _chunk_offsets(text, start=, end=, chunk_size=)
ChunkOffsets(txt, start, end, size) == ChunkOffsetsFrom(txt, start, end, size)

RECURSIVE CollectFrom(_, _, _)
\* the loop of _collect_source_spans; current is None or the last span
CollectFrom(window, spans, current) ==
    IF window = <<>> THEN spans
    ELSE LET pointer == Head(window)
         IN  IF pointer = None THEN CollectFrom(Tail(window), spans, None)
             ELSE IF current # None /\ pointer.source_id = current.source_id
                     /\ pointer.start = current.end
                  THEN LET merged == SourceSpan(current.start, pointer.end)
                       IN  CollectFrom(Tail(window),
                                       [spans EXCEPT ![Len(spans)] = merged],
                                       merged)
                  ELSE LET fresh == SourceSpan(pointer.start, pointer.end)
                       IN  CollectFrom(Tail(window), Append(spans, fresh), fresh)

\* _collect_source_spans(window_sources)
CollectSourceSpans(window) == CollectFrom(window, <<>>, None)

\* _make_anchor: the Anchor (hashes and hints left out)
MakeAnchor(prefix, counter, kind, start, end, sources) ==
    [anchor_id |-> <<prefix, counter>>, kind |-> kind,
     start |-> start, end |-> end,
     source_spans |-> CollectSourceSpans(Slice(sources, start, end))]

RECURSIVE ChunkAnchors(_, _, _)
\* the loop over chunk_starts in build_anchors
ChunkAnchors(chunks, counter, sources) ==
    IF chunks = <<>> THEN <<>>
    ELSE LET c == Head(chunks)
         IN  IF c.end - c.start <= 0
             THEN ChunkAnchors(Tail(chunks), counter, sources)
             ELSE <<MakeAnchor("c", counter, "chunk", c.start, c.end, sources)>>
                  \o ChunkAnchors(Tail(chunks), counter + 1, sources)

RECURSIVE ParagraphAnchors(_, _, _, _, _, _)
\* the loop over paragraph_spans in build_anchors
ParagraphAnchors(spans, txt, sources, size, paragraph_counter, chunk_counter) ==
    IF spans = <<>> THEN <<>>
    ELSE LET p == Head(spans)
         IN  IF p.end <= p.start
             THEN ParagraphAnchors(Tail(spans), txt, sources, size,
                                   paragraph_counter, chunk_counter)
             ELSE LET chunks ==
                          IF p.end - p.start > size
                          THEN ChunkAnchors(
                                   ChunkOffsets(txt, p.start, p.end, size),
                                   chunk_counter, sources)
                          ELSE <<>>
                  IN  <<MakeAnchor("s", paragraph_counter, "paragraph",
                                   p.start, p.end, sources)>>
                      \o chunks
                      \o ParagraphAnchors(Tail(spans), txt, sources, size,
                                          paragraph_counter + 1,
                                          chunk_counter + Len(chunks))

\* a sort with the order reversed (reverse=True)
SortByStartDescending(as) ==
    LET RECURSIVE Sorted(_)
        Sorted(rest) ==
            IF rest = <<>> THEN <<>>
            ELSE LET tail == Sorted(Tail(rest))
                     a == Head(rest)
                     k == Cardinality({m \in DOMAIN tail :
                                          tail[m].start > a.start})
                 IN  SubSeq(tail, 1, k) \o <<a>>
                     \o SubSeq(tail, k + 1, Len(tail))
    IN  Sorted(as)

RECURSIVE SortByStart(_)
\* anchors.sort(key=lambda a: a.start): stable
SortByStart(as) ==
    IF as = <<>> THEN <<>>
    ELSE LET rest == SortByStart(Tail(as))
             a == Head(as)
             k == Cardinality({m \in DOMAIN rest : rest[m].start < a.start})
         IN  SubSeq(rest, 1, k) \o <<a>> \o SubSeq(rest, k + 1, Len(rest))

\* build_anchors: the AnchorMap, or the ValueError of the length check
build_anchors(canonical_text, sources, size) ==
    IF Len(canonical_text) # Len(sources)
    THEN [raised |-> "ValueError", anchors |-> <<>>, canonical_length |-> 0]
    ELSE LET made == ParagraphAnchors(IterParagraphSpans(canonical_text),
                                      canonical_text, sources, size, 1, 1)
         IN  IF \E k \in DOMAIN made :
                    made[k].start < 0 \/ made[k].end > Len(canonical_text)
             THEN \* _make_anchor: "anchor span out of bounds"
                  [raised |-> "ValueError", anchors |-> <<>>,
                   canonical_length |-> 0]
             ELSE [raised |-> "", anchors |-> SortByStart(made),
                   canonical_length |-> Len(canonical_text)]

----------------------------------------------------------------------------
(* The canonicalize / build_anchors run: the input is a concatenation of   *)
(* at most MaxFragments markup fragments, in HTML or plain-text mode.      *)

Fragments ==
    << <<"a">>, <<" ">>, <<LF>>, <<CR, LF>>, <<ZWSP>>, <<NBSP>>,
       <<">">>, <<"<">>, <<"&">>, <<";">>,
       <<"&", "l", "t", ";">>,
       <<"<", "p", ">">>, <<"<", "/", "P", ">">>,
       <<"<", "b", "r", "/", ">">>,
       <<"<", "s", "t", "y", "l", "e", ">">>,
       <<"<", "/", "s", "t", "y", "l", "e", ">">>,
       <<"<", "!", "-", "-">>, <<"-", "-", ">">> >>

RECURSIVE Concat(_)
Concat(parts) == IF parts = <<>> THEN <<>> ELSE Head(parts) \o Concat(Tail(parts))

Inputs ==
    {Concat([k \in DOMAIN f |-> Fragments[f[k]]]) :
        f \in UNION {[1 .. n -> DOMAIN Fragments] : n \in 0 .. MaxFragments}}

NoAnchors == [raised |-> "", anchors |-> <<>>, canonical_length |-> 0]
NoPlan ==
    [segments |-> [is_list |-> FALSE, items |-> <<>>],
     overlays |-> <<>>, frames |-> <<>>]

Self ==
    [convert_newlines_to_space |-> treat_as_html,
     canonical_chars |-> canonical_chars, char_sources |-> char_sources,
     pending_block_break |-> pending_block_break,
     last_was_space |-> last_was_space, skip_stack |-> skip_stack]

SetSelf(self) ==
    /\ canonical_chars' = self.canonical_chars
    /\ char_sources' = self.char_sources
    /\ pending_block_break' = self.pending_block_break
    /\ last_was_space' = self.last_was_space
    /\ skip_stack' = self.skip_stack

\* canonicalize(raw_text, treat_as_html=...) after _Canonicalizer.__init__
Init ==
    /\ pc = "process"
    /\ raw_text \in Inputs
    /\ treat_as_html \in BOOLEAN
    /\ i = 0
    /\ canonical_chars = <<>>
    /\ char_sources = <<>>
    /\ pending_block_break = FALSE
    /\ last_was_space = FALSE
    /\ skip_stack = <<>>
    /\ text = <<>>
    /\ again = <<>>
    /\ chunk_size = 0
    /\ anchors = NoAnchors
    /\ ordered = <<>>
    /\ plan = NoPlan
    /\ errors = <<>>
    /\ raised = ""
    /\ SentenceIdle
    /\ TableIdle
    /\ FilterIdle
    /\ ViewIdle
    /\ ReaderIdle
    /\ RetryIdle
    /\ StructuredIdle
    /\ BuildIdle
    /\ ChunkIdle
    /\ JobIdle

Scanning == pc = "process" /\ treat_as_html /\ i < Len(raw_text)

HtmlStep ==
    LET step == ProcessHtmlStep(Self, raw_text, i)
    IN  /\ SetSelf(step.self)
        /\ i' = step.i
        /\ UNCHANGED <<pc, raw_text, treat_as_html, text, again>>
        /\ UNCHANGED anchorVars /\ UNCHANGED planVars
    /\ UNCHANGED sentenceVars
    /\ UNCHANGED tableVars
    /\ UNCHANGED filterVars
    /\ UNCHANGED viewVars
    /\ UNCHANGED readerVars
    /\ UNCHANGED retryVars
    /\ UNCHANGED structuredVars
    /\ UNCHANGED buildVars
    /\ UNCHANGED chunkVars
    /\ UNCHANGED jobVars

\* _process_html: an iteration inside skipped script/style/noscript content
SkipStep == Scanning /\ skip_stack # <<>> /\ HtmlStep

\* _process_html: an iteration at a "<"
TagStep == Scanning /\ skip_stack = <<>> /\ At(raw_text, i) = "<" /\ HtmlStep

\* _process_html: an iteration over the text up to the next "<"
TextStep == Scanning /\ skip_stack = <<>> /\ At(raw_text, i) # "<" /\ HtmlStep

\* run(): _process_plain_text
PlainText ==
    /\ pc = "process" /\ ~treat_as_html
    /\ SetSelf(ProcessPlainText(Self, raw_text))
    /\ pc' = "trim"
    /\ UNCHANGED <<raw_text, treat_as_html, i, text, again>>
    /\ UNCHANGED anchorVars /\ UNCHANGED planVars
    /\ UNCHANGED sentenceVars
    /\ UNCHANGED tableVars
    /\ UNCHANGED filterVars
    /\ UNCHANGED viewVars
    /\ UNCHANGED readerVars
    /\ UNCHANGED retryVars
    /\ UNCHANGED structuredVars
    /\ UNCHANGED buildVars
    /\ UNCHANGED chunkVars
    /\ UNCHANGED jobVars

\* _process_html leaves its loop
HtmlDone ==
    /\ pc = "process" /\ treat_as_html /\ i >= Len(raw_text)
    /\ pc' = "trim"
    /\ UNCHANGED canonVars /\ UNCHANGED anchorVars /\ UNCHANGED planVars
    /\ UNCHANGED sentenceVars
    /\ UNCHANGED tableVars
    /\ UNCHANGED filterVars
    /\ UNCHANGED viewVars
    /\ UNCHANGED readerVars
    /\ UNCHANGED retryVars
    /\ UNCHANGED structuredVars
    /\ UNCHANGED buildVars
    /\ UNCHANGED chunkVars
    /\ UNCHANGED jobVars

\* run(): _trim_trailing_layout and the CanonicalizationResult
Finish ==
    /\ pc = "trim"
    /\ LET trimmed == TrimTrailingLayout(Self)
       IN  /\ SetSelf(trimmed)
           /\ text' = Join(trimmed.canonical_chars)
    /\ pc' = "done"
    /\ UNCHANGED <<raw_text, treat_as_html, i, again>>
    /\ UNCHANGED anchorVars /\ UNCHANGED planVars
    /\ UNCHANGED sentenceVars
    /\ UNCHANGED tableVars
    /\ UNCHANGED filterVars
    /\ UNCHANGED viewVars
    /\ UNCHANGED readerVars
    /\ UNCHANGED retryVars
    /\ UNCHANGED structuredVars
    /\ UNCHANGED buildVars
    /\ UNCHANGED chunkVars
    /\ UNCHANGED jobVars

\* canonicalize(result.text, treat_as_html=False)
Recanonicalize ==
    /\ pc = "done"
    /\ again' = canonicalize(text, FALSE).text
    /\ pc' = "again"
    /\ UNCHANGED <<raw_text, treat_as_html, i, canonical_chars, char_sources,
                   pending_block_break, last_was_space, skip_stack, text>>
    /\ UNCHANGED anchorVars /\ UNCHANGED planVars
    /\ UNCHANGED sentenceVars
    /\ UNCHANGED tableVars
    /\ UNCHANGED filterVars
    /\ UNCHANGED viewVars
    /\ UNCHANGED readerVars
    /\ UNCHANGED retryVars
    /\ UNCHANGED structuredVars
    /\ UNCHANGED buildVars
    /\ UNCHANGED chunkVars
    /\ UNCHANGED jobVars

\* build_anchors(canonical_text=result.text, char_sources=result.char_sources)
BuildAnchors ==
    /\ pc = "done"
    /\ \E size \in 1 .. MaxChunkSize :
          /\ chunk_size' = size
          /\ anchors' = build_anchors(text, char_sources, size)
    /\ pc' = "anchored"
    /\ UNCHANGED canonVars /\ UNCHANGED planVars
    /\ UNCHANGED sentenceVars
    /\ UNCHANGED tableVars
    /\ UNCHANGED filterVars
    /\ UNCHANGED viewVars
    /\ UNCHANGED readerVars
    /\ UNCHANGED retryVars
    /\ UNCHANGED structuredVars
    /\ UNCHANGED buildVars
    /\ UNCHANGED chunkVars
    /\ UNCHANGED jobVars

Next ==
    \/ SkipStep
    \/ TagStep
    \/ TextStep
    \/ PlainText
    \/ HtmlDone
    \/ Finish
    \/ Recanonicalize
    \/ BuildAnchors

Spec == Init /\ [][Next]_vars

----------------------------------------------------------------------------
(* Properties of canonicalize and build_anchors.                           *)

Returned == pc \in {"done", "again", "anchored"}

\* C1: for every input and either mode, the result of canonicalize has
\* len(result.text) == len(result.char_sources), also when the input holds
\* characters the smart-punctuation table maps to the empty string.
C1_LengthInvariant == Returned => Len(text) = Len(char_sources)

\* C2: in HTML mode the canonical text contains neither "<" nor ">".
C2_NoMarkupLeakage ==
    (Returned /\ treat_as_html) =>
        \A k \in DOMAIN text : text[k] \notin {"<", ">"}

\* the characters a slice of the original input decodes to: HTML-entity
\* unescaping, then smart-punctuation normalization
Decoded(slice) == {SmartPunctuation(c) : c \in Range(Unescape(slice))}

\* C3: for every index whose provenance pointer is non-null, the slice
\* raw_text[start:end] of the original input, unescaped and normalized,
\* contains the character text[index] (a whitespace character of the text is
\* taken to be contained in any slice that decodes to whitespace).
C3_ProvenanceSound ==
    Returned =>
        \A k \in DOMAIN text :
            (k \in DOMAIN char_sources /\ char_sources[k] # None) =>
                LET decoded == Decoded(Slice(raw_text, char_sources[k].start,
                                             char_sources[k].end))
                IN  \/ text[k] \in decoded
                    \/ IsSpace(text[k]) /\ \E c \in decoded : IsSpace(c)

\* C4: canonicalizing the canonical text again in plain mode returns it
\* unchanged.
C4_FixedPoint == pc = "again" => again = text

\* C5: every iteration of the scan loop of _process_html moves the scan
\* index strictly forward and never past the end of the input, so that the
\* loop ends and canonicalize returns, whatever the markup.
C5_ScanAdvances ==
    [][Scanning => (i < i' /\ i' <= Len(raw_text))]_vars

\* a run over malformed markup has returned: the input ends inside skipped
\* content that is never closed
C5_Witness ==
    /\ pc = "done" /\ treat_as_html
    /\ i = Len(raw_text)
    /\ skip_stack # <<>>
    /\ Len(raw_text) > 7

\* C6: the anchors build_anchors returns are sorted by non-decreasing start,
\* each has 0 <= start < end <= len(canonical_text), and each collected
\* source span has start < end.
C6_AnchorsOrdered ==
    (pc = "anchored" /\ anchors.raised = "") =>
        LET as == anchors.anchors
        IN  /\ \A k \in 1 .. (Len(as) - 1) : as[k].start <= as[k + 1].start
            /\ \A k \in DOMAIN as :
                  /\ 0 <= as[k].start
                  /\ as[k].start < as[k].end
                  /\ as[k].end <= Len(text)
                  /\ \A m \in DOMAIN as[k].source_spans :
                        as[k].source_spans[m].start < as[k].source_spans[m].end

\* two paragraphs, chunk anchors and collected source spans
C6_Witness ==
    /\ pc = "anchored" /\ anchors.raised = ""
    /\ \E k, m \in DOMAIN anchors.anchors :
          /\ anchors.anchors[k].kind = "paragraph"
          /\ anchors.anchors[m].kind = "paragraph"
          /\ anchors.anchors[k].start < anchors.anchors[m].start
    /\ \E k \in DOMAIN anchors.anchors :
          /\ anchors.anchors[k].kind = "chunk"
          /\ anchors.anchors[k].source_spans # <<>>

\* C7: for chunk_size >= 1, every non-whitespace position of the canonical
\* text lies inside the span of at least one returned anchor.
C7_FullCoverage ==
    (pc = "anchored" /\ anchors.raised = "") =>
        \A k \in 0 .. (Len(text) - 1) :
            ~IsSpace(At(text, k)) =>
                \E m \in DOMAIN anchors.anchors :
                    /\ anchors.anchors[m].start <= k
                    /\ k < anchors.anchors[m].end

\* a text of several paragraphs with layout between them has been anchored
C7_Witness ==
    /\ pc = "anchored" /\ anchors.raised = "" /\ chunk_size >= 1
    /\ Len(anchors.anchors) >= 2
    /\ \E k \in 1 .. (Len(text) - 1) : text[k] = LF /\ text[k + 1] = LF
    /\ \E k \in DOMAIN text : ~IsSpace(text[k])

----------------------------------------------------------------------------
(* plan_validation.py: validate_plan.  An error message is a record of the *)
(* message's template (kind) and the values formatted into it.             *)

Error(kind, label, name, a, b) ==
    [kind |-> kind, label |-> label, name |-> name, a |-> a, b |-> b]

\* ordinal = {aid: idx for idx, aid in enumerate(ordered)}: the last index
\* of aid in ordered, 0-based
Ordinal(ids, aid) ==
    LET at == {k \in DOMAIN ids : ids[k] = aid}
    IN  (CHOOSE k \in at : \A m \in at : m <= k) - 1

Known(ids, aid) == \E k \in DOMAIN ids : ids[k] = aid

\* if start_idx > end_idx (plan_validation.py:52)
Inverted(start_idx, end_idx) == start_idx > end_idx

\* a segment that only may not start before the expected anchor
NonContiguousOverlapOnly(start_idx, last_idx) == start_idx < last_idx + 1

\* if start_idx != last_idx + 1 (plan_validation.py:55)
NonContiguous(start_idx, last_idx) == start_idx # last_idx + 1

\* a trailing check that accepts any plan ending inside the document
IncompleteNever(last_idx, ids) == last_idx > Len(ids) - 1

\* if last_idx != len(ordered) - 1 (plan_validation.py:62)
Incomplete(last_idx, ids) == last_idx # Len(ids) - 1

RECURSIVE SegmentLoop(_, _, _, _)
\* the loop over segments: the errors so far and last_idx
SegmentLoop(segments, ids, errs, last_idx) ==
    IF segments = <<>> THEN [errors |-> errs, last_idx |-> last_idx]
    ELSE LET segment == Head(segments)
             rng == segment.range
             seg_id == segment.seg_id
         IN  IF Len(rng) # 2
             THEN SegmentLoop(Tail(segments), ids,
                      Append(errs, Error("range must be [start,end]",
                                         "segment", seg_id, "", "")),
                      last_idx)
             ELSE IF ~Known(ids, rng[1]) \/ ~Known(ids, rng[2])
             THEN SegmentLoop(Tail(segments), ids,
                      Append(errs, Error("references unknown anchors",
                                         "segment", seg_id, rng[1], rng[2])),
                      last_idx)
             ELSE LET start_idx == Ordinal(ids, rng[1])
                      end_idx == Ordinal(ids, rng[2])
                  IN  IF Inverted(start_idx, end_idx)
                      THEN SegmentLoop(Tail(segments), ids,
                               Append(errs, Error("start > end", "segment",
                                                  seg_id, rng[1], rng[2])),
                               last_idx)
                      ELSE SegmentLoop(Tail(segments), ids,
                               IF NonContiguous(start_idx, last_idx)
                               THEN Append(errs,
                                        Error("expected contiguous anchor",
                                              "segment", seg_id, rng[1], ""))
                               ELSE errs,
                               end_idx)

RECURSIVE SpanLoop(_, _, _, _)
\* _check_spans: the loop over the spans of one entry
SpanLoop(spans, label, name, ids) ==
    IF spans = <<>> THEN <<>>
    ELSE LET span == Head(spans)
         IN  (IF Len(span) # 2
              THEN <<Error("span must be [start,end]", label, name, "", "")>>
              ELSE IF ~Known(ids, span[1]) \/ ~Known(ids, span[2])
              THEN <<Error("references unknown anchors", label, name,
                           span[1], span[2])>>
              ELSE <<>>)
             \o SpanLoop(Tail(spans), label, name, ids)

RECURSIVE CheckSpans(_, _, _)
\* _check_spans(entries, label): the errors it appends
CheckSpans(entries, label, ids) ==
    IF entries = <<>> THEN <<>>
    ELSE SpanLoop(Head(entries).spans, label, Head(entries).name, ids)
         \o CheckSpans(Tail(entries), label, ids)

RECURSIVE DependencyLoop(_, _, _)
DependencyLoop(deps, name, ids) ==
    IF deps = <<>> THEN <<>>
    ELSE (IF ~Known(ids, Head(deps))
          THEN <<Error("dependency is not a known sentence anchor", "frame",
                       name, Head(deps), "")>>
          ELSE <<>>)
         \o DependencyLoop(Tail(deps), name, ids)

RECURSIVE CheckDependencies(_, _)
\* the loop over frames checking frame["dependencies"]
CheckDependencies(frames, ids) ==
    IF frames = <<>> THEN <<>>
    ELSE DependencyLoop(Head(frames).dependencies, Head(frames).name, ids)
         \o CheckDependencies(Tail(frames), ids)

\* validate_plan(plan, sentence_ids): the returned list of errors
validate_plan(p, ids) ==
    IF ~p.segments.is_list \/ p.segments.items = <<>>
    THEN <<Error("segments array missing or empty", "", "", "", "")>>
    ELSE LET loop == SegmentLoop(p.segments.items, ids, <<>>, -1)
             trailing ==
                 IF Incomplete(loop.last_idx, ids)
                 THEN <<Error("segments end", "",  "",
                              IF loop.last_idx >= 0
                              THEN ids[loop.last_idx + 1] ELSE "N/A",
                              ids[Len(ids)])>>
                 ELSE <<>>
         IN  loop.errors \o trailing
             \o CheckSpans(p.overlays, "overlay", ids)
             \o CheckSpans(p.frames, "frame", ids)
             \o CheckDependencies(p.frames, ids)

----------------------------------------------------------------------------
(* The validate_plan run: MaxAnchors sentence anchors at most, a plan of   *)
(* MaxSegments segments at most, one overlay and one frame at most.        *)

AnchorIds == <<"s1", "s2", "s3", "s4", "s5">>
UnknownId == "s999"
SegIds == <<"seg1", "seg2", "seg3", "seg4">>

CitedIds(ids) == Range(ids) \cup {UnknownId}

RangesOver(ids) ==
    {<<a, b>> : a, b \in CitedIds(ids)} \cup {<<ids[1]>>}

SegmentLists(ids) ==
    UNION {{[k \in 1 .. n |-> [seg_id |-> SegIds[k], range |-> r[k]]] :
               r \in [1 .. n -> RangesOver(ids)]} : n \in 0 .. MaxSegments}

SpansOver(ids) ==
    {<<a, b>> : a \in {ids[1], UnknownId}, b \in {ids[Len(ids)], UnknownId}}
    \cup {<<ids[1]>>}

OverlayLists(ids) ==
    {<<>>} \cup {<<[name |-> "overlay1", spans |-> <<sp>>]>> :
                    sp \in SpansOver(ids)}

FrameLists(ids) ==
    {<<>>} \cup {<<[name |-> "frame1", spans |-> sps, dependencies |-> deps]>> :
                    sps \in {<<>>, <<<<ids[1], UnknownId>>>>},
                    deps \in {<<>>, <<ids[1]>>, <<UnknownId>>,
                              <<ids[1], UnknownId>>}}

Plans(ids) ==
    {[segments |-> segs, overlays |-> ovs, frames |-> frs] :
        segs \in {[is_list |-> FALSE, items |-> <<>>]}
                 \cup {[is_list |-> TRUE, items |-> items] :
                          items \in SegmentLists(ids)},
        ovs \in OverlayLists(ids),
        frs \in FrameLists(ids)}

\* json.loads of the plan file and load_sentence_anchor_ids
InitPlan ==
    /\ pc = "validate"
    /\ \E n \in 1 .. MaxAnchors :
          /\ ordered = SubSeq(AnchorIds, 1, n)
          /\ plan \in Plans(SubSeq(AnchorIds, 1, n))
    /\ errors = <<>>
    /\ raised = ""
    /\ raw_text = <<>>
    /\ treat_as_html = FALSE
    /\ i = 0
    /\ canonical_chars = <<>>
    /\ char_sources = <<>>
    /\ pending_block_break = FALSE
    /\ last_was_space = FALSE
    /\ skip_stack = <<>>
    /\ text = <<>>
    /\ again = <<>>
    /\ chunk_size = 0
    /\ anchors = NoAnchors
    /\ SentenceIdle
    /\ TableIdle
    /\ FilterIdle
    /\ ViewIdle
    /\ ReaderIdle
    /\ RetryIdle
    /\ StructuredIdle
    /\ BuildIdle
    /\ ChunkIdle
    /\ JobIdle

\* errors = validate_plan(plan, sentence_ids)
ValidatePlan ==
    /\ pc = "validate"
    /\ errors' = validate_plan(plan, ordered)
    /\ raised' = ""
    /\ pc' = "validated"
    /\ UNCHANGED <<ordered, plan>>
    /\ UNCHANGED canonVars /\ UNCHANGED anchorVars
    /\ UNCHANGED sentenceVars
    /\ UNCHANGED tableVars
    /\ UNCHANGED filterVars
    /\ UNCHANGED viewVars
    /\ UNCHANGED readerVars
    /\ UNCHANGED retryVars
    /\ UNCHANGED structuredVars
    /\ UNCHANGED buildVars
    /\ UNCHANGED chunkVars
    /\ UNCHANGED jobVars

NextPlan == ValidatePlan

SpecPlan == InitPlan /\ [][NextPlan]_vars

----------------------------------------------------------------------------
(* Properties of validate_plan.                                            *)

\* the position (1-based) of a known anchor in the list of distinct ids
PositionOf(ids, aid) == CHOOSE k \in DOMAIN ids : ids[k] = aid

\* a segment whose range is a pair of known anchors with start <= end
Accepted(segment, ids) ==
    /\ Len(segment.range) = 2
    /\ segment.range[1] \in Range(ids)
    /\ segment.range[2] \in Range(ids)
    /\ PositionOf(ids, segment.range[1]) <= PositionOf(ids, segment.range[2])

\* the anchors a segment covers, in document order
Covered(segment, ids) ==
    SubSeq(ids, PositionOf(ids, segment.range[1]),
           PositionOf(ids, segment.range[2]))

\* the ranges, in plan order, cover every anchor exactly once and in order
CoversInOrder(p, ids) ==
    /\ p.segments.is_list
    /\ \A k \in DOMAIN p.segments.items : Accepted(p.segments.items[k], ids)
    /\ Concat([k \in DOMAIN p.segments.items |->
                  Covered(p.segments.items[k], ids)]) = ids

\* C8: for a plan without overlays and frames, validate_plan returns no
\* error if and only if the segments' ranges, in plan order, cover every
\* sentence anchor exactly once and in order.
C8_NoErrorsIffCovers ==
    (pc = "validated" /\ plan.overlays = <<>> /\ plan.frames = <<>>) =>
        (errors = <<>> <=> CoversInOrder(plan, ordered))

\* a plan of two segments that cover three anchors was found valid
C8_Witness ==
    /\ pc = "validated" /\ plan.overlays = <<>> /\ plan.frames = <<>>
    /\ Len(ordered) = 3
    /\ Len(plan.segments.items) = 2
    /\ errors = <<>>

\* the position a segment is expected to start at: right after the end of
\* the last accepted segment before it, or at the first anchor
ExpectedStart(p, ids, k) ==
    LET before == {m \in 1 .. (k - 1) : Accepted(p.segments.items[m], ids)}
    IN  IF before = {} THEN 1
        ELSE LET m == CHOOSE x \in before : \A y \in before : y <= x
             IN  PositionOf(ids, p.segments.items[m].range[2]) + 1

StartsElsewhere(p, ids, k) ==
    /\ Accepted(p.segments.items[k], ids)
    /\ PositionOf(ids, p.segments.items[k].range[1]) # ExpectedStart(p, ids, k)

\* C9: a segment with known anchors and start <= end that begins at another
\* anchor than the one right after the end of the previous accepted segment
\* gets a non-contiguous-start error naming it.
C9_GapReported ==
    pc = "validated" =>
        \A k \in DOMAIN plan.segments.items :
            StartsElsewhere(plan, ordered, k) =>
                \E e \in DOMAIN errors :
                    /\ errors[e].kind = "expected contiguous anchor"
                    /\ errors[e].name = plan.segments.items[k].seg_id

\* the second segment starts after a gap: [s1-s1],[s3-s3]
C9_Witness ==
    /\ pc = "validated"
    /\ Len(plan.segments.items) = 2
    /\ Accepted(plan.segments.items[1], ordered)
    /\ StartsElsewhere(plan, ordered, 2)
    /\ PositionOf(ordered, plan.segments.items[2].range[1])
           > ExpectedStart(plan, ordered, 2)

UnknownAnchorError(label, name) ==
    \E e \in DOMAIN errors :
        /\ errors[e].kind \in {"references unknown anchors",
                               "dependency is not a known sentence anchor"}
        /\ errors[e].label = label
        /\ errors[e].name = name

\* C10: every overlay span, frame span and frame dependency that cites an
\* anchor not in the anchor list gets an unknown-anchor error, whatever the
\* segments part of the plan is (valid, erroneous, empty or missing).
C10_DanglingReported ==
    pc = "validated" =>
        /\ \A k \in DOMAIN plan.overlays :
              (\E m \in DOMAIN plan.overlays[k].spans :
                  /\ Len(plan.overlays[k].spans[m]) = 2
                  /\ \E x \in 1 .. 2 :
                        plan.overlays[k].spans[m][x] \notin Range(ordered))
              => UnknownAnchorError("overlay", plan.overlays[k].name)
        /\ \A k \in DOMAIN plan.frames :
              /\ (\E m \in DOMAIN plan.frames[k].spans :
                     /\ Len(plan.frames[k].spans[m]) = 2
                     /\ \E x \in 1 .. 2 :
                           plan.frames[k].spans[m][x] \notin Range(ordered))
                 => UnknownAnchorError("frame", plan.frames[k].name)
              /\ (\E m \in DOMAIN plan.frames[k].dependencies :
                     plan.frames[k].dependencies[m] \notin Range(ordered))
                 => UnknownAnchorError("frame", plan.frames[k].name)

----------------------------------------------------------------------------
(* The canonicalize run over layout: longer inputs made of text, spaces,   *)
(* newlines, zero-width spaces, &nbsp; entities, <br/> and <p> tags.       *)

LayoutFragments ==
    << <<"a">>, <<" ">>, <<LF>>, <<ZWSP>>,
       <<"&", "n", "b", "s", "p", ";">>,
       <<"<", "b", "r", "/", ">">>,
       <<"<", "p", ">">> >>

LayoutInputs ==
    {Concat([k \in DOMAIN f |-> LayoutFragments[f[k]]]) :
        f \in UNION {[1 .. n -> DOMAIN LayoutFragments] :
                        n \in 0 .. MaxLayoutFragments}}

InitLayout ==
    /\ pc = "process"
    /\ raw_text \in LayoutInputs
    /\ treat_as_html \in BOOLEAN
    /\ i = 0
    /\ canonical_chars = <<>>
    /\ char_sources = <<>>
    /\ pending_block_break = FALSE
    /\ last_was_space = FALSE
    /\ skip_stack = <<>>
    /\ text = <<>>
    /\ again = <<>>
    /\ chunk_size = 0
    /\ anchors = NoAnchors
    /\ ordered = <<>>
    /\ plan = NoPlan
    /\ errors = <<>>
    /\ raised = ""
    /\ SentenceIdle
    /\ TableIdle
    /\ FilterIdle
    /\ ViewIdle
    /\ ReaderIdle
    /\ RetryIdle
    /\ StructuredIdle
    /\ BuildIdle
    /\ ChunkIdle
    /\ JobIdle

NextLayout ==
    \/ TagStep
    \/ TextStep
    \/ PlainText
    \/ HtmlDone
    \/ Finish

SpecLayout == InitLayout /\ [][NextLayout]_vars

\* C18: the canonical text never holds two consecutive spaces and never a
\* space right after a newline.
C18_SpacesCollapsed ==
    Returned =>
        \A k \in 1 .. (Len(text) - 1) :
            text[k + 1] = " " => text[k] \notin {" ", LF}

\* C19: in HTML mode the canonical text never holds three or more
\* consecutive newlines.
C19_OneParagraphBreak ==
    (Returned /\ treat_as_html) =>
        \A k \in 1 .. (Len(text) - 2) :
            ~(text[k] = LF /\ text[k + 1] = LF /\ text[k + 2] = LF)

\* C20: the canonical text neither begins nor ends with a space or newline,
\* and the trim removes the provenance entries of the removed characters in
\* lock-step (the two lists keep the length difference they had).
C20_Trimmed ==
    Returned =>
        /\ text # <<>> => /\ text[1] \notin {" ", LF}
                          /\ text[Len(text)] \notin {" ", LF}
        /\ Len(canonical_chars) = Len(char_sources)

----------------------------------------------------------------------------
(* plan_validation.py: validate_plan on an arbitrary plan decoded by       *)
(* json.loads.  A JSON value is a record tagged with its Python type; an   *)
(* object holds its keys and, aligned with them, its values in items.      *)

JStr(str) == [t |-> "str", s |-> str, items |-> <<>>, keys |-> <<>>]
JNull == [t |-> "NoneType", s |-> "None", items |-> <<>>, keys |-> <<>>]
JNum == [t |-> "int", s |-> "1", items |-> <<>>, keys |-> <<>>]
JArr(items) == [t |-> "list", s |-> "[]", items |-> items, keys |-> <<>>]
JObj(keys, values) == [t |-> "dict", s |-> "{}", items |-> values, keys |-> keys]

\* the characters of the strings the explored plans iterate over
StringChars ==
    ("" :> <<>>) @@ ("x" :> <<"x">>) @@ ("s1" :> <<"s", "1">>)

\* value.get exists for dicts only (AttributeError otherwise)
HasGet(value) == value.t = "dict"
\* value.get(key, default)
Get(value, key, default) ==
    IF \E k \in DOMAIN value.keys : value.keys[k] = key
    THEN value.items[CHOOSE k \in DOMAIN value.keys : value.keys[k] = key]
    ELSE default

\* hash(value) raises TypeError for lists and dicts
Hashable(value) == value.t \notin {"list", "dict"}

\* iter(value) raises TypeError for None and numbers
Iterable(value) == value.t \in {"list", "str", "dict"}
Iterate(value) ==
    IF value.t = "list" THEN value.items
    ELSE IF value.t = "str"
         THEN [k \in DOMAIN StringChars[value.s] |-> JStr(StringChars[value.s][k])]
    ELSE [k \in DOMAIN value.keys |-> JStr(value.keys[k])]

\* value in ordinal / value in valid_ids, for a hashable value
KnownValue(ids, value) == value.t = "str" /\ Known(ids, value.s)

\* the state threaded through validate_plan: the exception raised (or ""),
\* the errors so far and last_idx
Raise(st, exception) == [st EXCEPT !.raised = exception]
AddError(st, e) == [st EXCEPT !.errors = Append(@, e)]

RECURSIVE JsonSegmentLoop(_, _, _)
JsonSegmentLoop(segments, ids, st) ==
    IF segments = <<>> \/ st.raised # "" THEN st
    ELSE LET segment == Head(segments)
             rest == Tail(segments)
         IN  IF ~HasGet(segment) THEN Raise(st, "AttributeError")
             ELSE
             LET rng == Get(segment, "range", JNull)
                 seg_id == Get(segment, "seg_id", JStr("<unknown>")).s
             IN  IF rng.t # "list" \/ Len(rng.items) # 2
                 THEN JsonSegmentLoop(rest, ids,
                          AddError(st, Error("range must be [start,end]",
                                             "segment", seg_id, "", "")))
                 ELSE
                 LET start == rng.items[1]
                     end == rng.items[2]
                 IN  IF ~Hashable(start) THEN Raise(st, "TypeError")
                     ELSE IF ~KnownValue(ids, start)
                     THEN JsonSegmentLoop(rest, ids,
                              AddError(st, Error("references unknown anchors",
                                                 "segment", seg_id,
                                                 start.s, end.s)))
                     ELSE IF ~Hashable(end) THEN Raise(st, "TypeError")
                     ELSE IF ~KnownValue(ids, end)
                     THEN JsonSegmentLoop(rest, ids,
                              AddError(st, Error("references unknown anchors",
                                                 "segment", seg_id,
                                                 start.s, end.s)))
                     ELSE
                     LET start_idx == Ordinal(ids, start.s)
                         end_idx == Ordinal(ids, end.s)
                     IN  IF Inverted(start_idx, end_idx)
                         THEN JsonSegmentLoop(rest, ids,
                                  AddError(st, Error("start > end", "segment",
                                                     seg_id, start.s, end.s)))
                         ELSE JsonSegmentLoop(rest, ids,
                                  [(IF NonContiguous(start_idx, st.last_idx)
                                    THEN AddError(st,
                                             Error("expected contiguous anchor",
                                                   "segment", seg_id,
                                                   start.s, ""))
                                    ELSE st)
                                   EXCEPT !.last_idx = end_idx])

RECURSIVE JsonSpanLoop(_, _, _, _, _)
JsonSpanLoop(spans, label, name, ids, st) ==
    IF spans = <<>> \/ st.raised # "" THEN st
    ELSE LET span == Head(spans)
         IN  IF span.t # "list" \/ Len(span.items) # 2
             THEN JsonSpanLoop(Tail(spans), label, name, ids,
                      AddError(st, Error("span must be [start,end]",
                                         label, name, "", "")))
             ELSE LET start == span.items[1]
                      end == span.items[2]
                  IN  IF ~Hashable(start) THEN Raise(st, "TypeError")
                      ELSE IF ~KnownValue(ids, start)
                      THEN JsonSpanLoop(Tail(spans), label, name, ids,
                               AddError(st, Error("references unknown anchors",
                                                  label, name, start.s, end.s)))
                      ELSE IF ~Hashable(end) THEN Raise(st, "TypeError")
                      ELSE IF ~KnownValue(ids, end)
                      THEN JsonSpanLoop(Tail(spans), label, name, ids,
                               AddError(st, Error("references unknown anchors",
                                                  label, name, start.s, end.s)))
                      ELSE JsonSpanLoop(Tail(spans), label, name, ids, st)

RECURSIVE JsonCheckSpans(_, _, _, _)
JsonCheckSpans(entries, label, ids, st) ==
    IF entries = <<>> \/ st.raised # "" THEN st
    ELSE LET entry == Head(entries)
         IN  IF ~HasGet(entry) THEN Raise(st, "AttributeError")
             ELSE LET spans == Get(entry, "spans", JArr(<<>>))
                      name == Get(entry, "name", JStr("<unknown>")).s
                  IN  IF ~Iterable(spans) THEN Raise(st, "TypeError")
                      ELSE JsonCheckSpans(Tail(entries), label, ids,
                               JsonSpanLoop(Iterate(spans), label, name, ids, st))

RECURSIVE JsonDependencyLoop(_, _, _, _)
JsonDependencyLoop(deps, name, ids, st) ==
    IF deps = <<>> \/ st.raised # "" THEN st
    ELSE LET dep == Head(deps)
         IN  IF ~Hashable(dep) THEN Raise(st, "TypeError")
             ELSE JsonDependencyLoop(Tail(deps), name, ids,
                      IF ~KnownValue(ids, dep)
                      THEN AddError(st,
                               Error("dependency is not a known sentence anchor",
                                     "frame", name, dep.s, ""))
                      ELSE st)

RECURSIVE JsonCheckDependencies(_, _, _)
JsonCheckDependencies(frames, ids, st) ==
    IF frames = <<>> \/ st.raised # "" THEN st
    ELSE LET frame == Head(frames)
         IN  IF ~HasGet(frame) THEN Raise(st, "AttributeError")
             ELSE LET deps == Get(frame, "dependencies", JArr(<<>>))
                      name == Get(frame, "name", JStr("<unknown>")).s
                  IN  IF ~Iterable(deps) THEN Raise(st, "TypeError")
                      ELSE JsonCheckDependencies(Tail(frames), ids,
                               JsonDependencyLoop(Iterate(deps), name, ids, st))

\* validate_plan(plan, sentence_ids) for a plan object of any content:
\* the exception that escapes (or "") and the error list
ValidatePlanJson(p, ids) ==
    LET segments == Get(p, "segments", JNull)
        st0 == [raised |-> "", errors |-> <<>>, last_idx |-> -1]
    IN  IF segments.t # "list" \/ segments.items = <<>>
        THEN AddError(st0, Error("segments array missing or empty",
                                 "", "", "", ""))
        ELSE
        LET st1 == JsonSegmentLoop(segments.items, ids, st0)
            st2 == IF st1.raised # "" \/ ~Incomplete(st1.last_idx, ids) THEN st1
                   ELSE IF ids = <<>> THEN Raise(st1, "IndexError")
                   ELSE AddError(st1,
                            Error("segments end", "", "",
                                  IF st1.last_idx >= 0
                                  THEN ids[st1.last_idx + 1] ELSE "N/A",
                                  ids[Len(ids)]))
            overlays == Get(p, "overlays", JArr(<<>>))
            st3 == IF overlays.t = "list"
                   THEN JsonCheckSpans(overlays.items, "overlay", ids, st2)
                   ELSE st2
            frames == Get(p, "frames", JArr(<<>>))
        IN  IF frames.t = "list"
            THEN JsonCheckDependencies(frames.items, ids,
                     JsonCheckSpans(frames.items, "frame", ids, st3))
            ELSE st3


----------------------------------------------------------------------------
(* The validate_plan run on decoded JSON of any shape: up to MaxAnchors    *)
(* anchors (none included), up to MaxJsonSegments segment entries, one     *)
(* overlay and one frame entry at most.                                    *)

JsonElements(ids) ==
    {JStr(IF ids = <<>> THEN UnknownId ELSE ids[1]), JStr(UnknownId),
     JNum, JNull, JArr(<<>>)}

JsonRanges(ids) ==
    {JNull} \cup {JArr(<<a, b>>) : a, b \in JsonElements(ids)}

JsonSegments(ids) ==
    {JStr("x"), JNull}
    \cup {JObj(<<"seg_id", "range">>, <<JStr("seg1"), r>>) : r \in JsonRanges(ids)}
    \cup {JObj(<<>>, <<>>)}

JsonSegmentLists(ids) ==
    UNION {{JArr(items) : items \in [1 .. n -> JsonSegments(ids)]} :
              n \in 0 .. MaxJsonSegments}

JsonSpans(ids) ==
    {JNull, JStr("s1"), JObj(<<"x">>, <<JNum>>), JArr(<<>>),
     JArr(<<JArr(<<JStr(UnknownId), JArr(<<>>)>>)>>),
     JArr(<<JArr(<<JArr(<<>>), JStr(UnknownId)>>)>>)}

JsonOverlays(ids) ==
    {JNull, JArr(<<JNum>>)}
    \cup {JArr(<<JObj(<<"name", "spans">>, <<JStr("overlay1"), sp>>)>>) :
             sp \in JsonSpans(ids)}

JsonDependencies(ids) ==
    {JNull, JStr("s1"), JArr(<<JStr(UnknownId)>>), JArr(<<JArr(<<>>)>>)}

JsonFrames(ids) ==
    {JArr(<<JStr("x")>>)}
    \cup {JArr(<<JObj(<<"name", "dependencies">>, <<JStr("frame1"), d>>)>>) :
             d \in JsonDependencies(ids)}

JsonPlans(ids) ==
    {JObj(<<>>, <<>>)}
    \cup {JObj(<<"segments">>, <<sg>>) : sg \in {JNull} \cup JsonSegmentLists(ids)}
    \cup {JObj(<<"segments", "overlays">>, <<sg, ov>>) :
             sg \in JsonSegmentLists(ids), ov \in JsonOverlays(ids)}
    \cup {JObj(<<"segments", "frames">>, <<sg, fr>>) :
             sg \in JsonSegmentLists(ids), fr \in JsonFrames(ids)}

InitPlanJson ==
    /\ pc = "validate"
    /\ \E n \in 0 .. MaxAnchors :
          /\ ordered = SubSeq(AnchorIds, 1, n)
          /\ plan \in JsonPlans(SubSeq(AnchorIds, 1, n))
    /\ errors = <<>>
    /\ raised = ""
    /\ raw_text = <<>>
    /\ treat_as_html = FALSE
    /\ i = 0
    /\ canonical_chars = <<>>
    /\ char_sources = <<>>
    /\ pending_block_break = FALSE
    /\ last_was_space = FALSE
    /\ skip_stack = <<>>
    /\ text = <<>>
    /\ again = <<>>
    /\ chunk_size = 0
    /\ anchors = NoAnchors
    /\ SentenceIdle
    /\ TableIdle
    /\ FilterIdle
    /\ ViewIdle
    /\ ReaderIdle
    /\ RetryIdle
    /\ StructuredIdle
    /\ BuildIdle
    /\ ChunkIdle
    /\ JobIdle

\* errors = validate_plan(json.loads(...), sentence_ids), or the exception
ValidatePlanJsonCall ==
    /\ pc = "validate"
    /\ LET result == ValidatePlanJson(plan, ordered)
       IN  /\ raised' = result.raised
           /\ errors' = IF result.raised = "" THEN result.errors ELSE <<>>
    /\ pc' = "validated"
    /\ UNCHANGED <<ordered, plan>>
    /\ UNCHANGED canonVars /\ UNCHANGED anchorVars
    /\ UNCHANGED sentenceVars
    /\ UNCHANGED tableVars
    /\ UNCHANGED filterVars
    /\ UNCHANGED viewVars
    /\ UNCHANGED readerVars
    /\ UNCHANGED retryVars
    /\ UNCHANGED structuredVars
    /\ UNCHANGED buildVars
    /\ UNCHANGED chunkVars
    /\ UNCHANGED jobVars

NextPlanJson == ValidatePlanJsonCall

SpecPlanJson == InitPlanJson /\ [][NextPlanJson]_vars

\* C11: validate_plan never raises: for every decoded plan and every anchor
\* list, the empty one included, it returns its list of error strings.
C11_NeverRaises == pc = "validated" => raised = ""


----------------------------------------------------------------------------
(* CanonicalDocumentBuilder._split_sentences                               *)

MaxSentenceFragments == 4

ABBREVIATIONS ==
    {<<"m","r",".">>, <<"m","r","s",".">>, <<"m","s",".">>,
     <<"d","r",".">>, <<"p","r","o","f",".">>, <<"s","r",".">>,
     <<"j","r",".">>, <<"i","n","c",".">>, <<"l","t","d",".">>,
     <<"c","o",".">>, <<"c","o","r","p",".">>, <<"u",".","s",".">>,
     <<"u",".","k",".">>, <<"n","o",".">>, <<"f","i","g",".">>,
     <<"a","r","t",".">>, <<"s","e","c",".">>, <<"c","h",".">>,
     <<"d","e","p","t",".">>, <<"a","s","s","n",".">>, <<"b","r","o","s",".">>,
     <<"s","t",".">>, <<"v","i","z",".">>, <<"v","s",".">>,
     <<"e","t","c",".">>, <<"i",".","e",".">>, <<"e",".","g",".">>}

TERMINATORS == {".", "?", "!"}

\* str.islower() of one character
IsLower(c) == c \in Range(LowerLetters)

\* len(s) - len(s.lstrip())
LeadingSpaces(s) ==
    LET solid == {k \in 1 .. Len(s) : ~IsSpace(s[k])}
    IN  IF solid = {} THEN Len(s) ELSE (CHOOSE k \in solid : \A m \in solid : k <= m) - 1

\* s.lstrip()
LStrip(s) == SubSeq(s, LeadingSpaces(s) + 1, Len(s))

\* s.strip()
Strip(s) ==
    LET solid == {k \in 1 .. Len(s) : ~IsSpace(s[k])}
    IN  IF solid = {} THEN <<>>
        ELSE SubSeq(s, CHOOSE k \in solid : \A m \in solid : k <= m,
                       CHOOSE k \in solid : \A m \in solid : k >= m)

\* s.split()[-1] of a string that holds a character other than whitespace
LastToken(s) ==
    LET stripped == Strip(s)
        spaces == {k \in 1 .. Len(stripped) : IsSpace(stripped[k])}
        from == IF spaces = {} THEN 1
                ELSE (CHOOSE k \in spaces : \A m \in spaces : k >= m) + 1
    IN  SubSeq(stripped, from, Len(stripped))

LowerChars(s) == [k \in DOMAIN s |-> Lower(s[k])]

\* _next_non_space_char
NextNonSpaceChar(s, index) ==
    LET solid == {k \in index .. (Len(s) - 1) : ~IsSpace(At(s, k))}
    IN  IF solid = {} THEN EMPTY
        ELSE At(s, CHOOSE k \in solid : \A m \in solid : k <= m)

\* stripped.startswith("|") and "| ---" in stripped
IsPipeTable(stripped) ==
    /\ StartsWith(stripped, <<"|">>, 0)
    /\ FindSeq(stripped, <<"|", " ", "-", "-", "-">>, 0) >= 0

\* the token test of the loop at a terminator at index k, the sentence so far
\* starting at from
AbbreviationContinues(s, from, k) ==
    /\ LowerChars(LastToken(Slice(s, from, k + 1))) \in ABBREVIATIONS
    /\ LET next_non_space == NextNonSpaceChar(s, k + 1)
       IN  next_non_space # EMPTY /\ (IsAlnum(next_non_space) \/ next_non_space = "_")

LowercaseContinues(s, k) == k + 1 < Len(s) /\ IsLower(At(s, k + 1))

\* the span appended for the text from index from up to end, if any
WithSentence(found, s, base, from, end) ==
    IF Strip(Slice(s, from, end)) = <<>> THEN found
    ELSE Append(found, <<base + from + LeadingSpaces(Slice(s, from, Len(s))), base + end>>)

SentenceFragments ==
    << <<"M","r",".">>, <<"U",".","S",".">>, <<"e",".","g",".">>, <<" ">>,
       <<"a">>, <<"S","m","i","t","h">>, <<" ","a","g","r","e","e","d",".">>,
       <<"?">>, <<"_">>, <<"|"," ","-","-","-">> >>

SentenceInputs ==
    {Concat([k \in DOMAIN f |-> SentenceFragments[f[k]]]) :
        f \in UNION {[1 .. n -> DOMAIN SentenceFragments] : n \in 0 .. MaxSentenceFragments}}

BaseOffsets == {0, 3}

InitSentences ==
    /\ pc = "split"
    /\ paragraph \in SentenceInputs
    /\ base_offset \in BaseOffsets
    /\ split_start = 0
    /\ split_i = 0
    /\ sentences = <<>>
    /\ raw_text = <<>>
    /\ treat_as_html = FALSE
    /\ i = 0
    /\ canonical_chars = <<>>
    /\ char_sources = <<>>
    /\ pending_block_break = FALSE
    /\ last_was_space = FALSE
    /\ skip_stack = <<>>
    /\ text = <<>>
    /\ again = <<>>
    /\ chunk_size = 0
    /\ anchors = NoAnchors
    /\ ordered = <<>>
    /\ plan = NoPlan
    /\ errors = <<>>
    /\ raised = ""
    /\ TableIdle
    /\ FilterIdle
    /\ ViewIdle
    /\ ReaderIdle
    /\ RetryIdle
    /\ StructuredIdle
    /\ BuildIdle
    /\ ChunkIdle
    /\ JobIdle

\* the Markdown table block is one sentence
SplitPipeTable ==
    /\ pc = "split"
    /\ IsPipeTable(LStrip(paragraph))
    /\ sentences' = <<<<base_offset + LeadingSpaces(paragraph), base_offset + Len(paragraph)>>>>
    /\ pc' = "split_done"
    /\ UNCHANGED <<paragraph, base_offset, split_start, split_i>>
    /\ UNCHANGED canonVars /\ UNCHANGED anchorVars /\ UNCHANGED planVars
    /\ UNCHANGED tableVars
    /\ UNCHANGED filterVars
    /\ UNCHANGED viewVars
    /\ UNCHANGED readerVars
    /\ UNCHANGED retryVars
    /\ UNCHANGED structuredVars
    /\ UNCHANGED buildVars
    /\ UNCHANGED chunkVars
    /\ UNCHANGED jobVars

SplitEnter ==
    /\ pc = "split"
    /\ ~IsPipeTable(LStrip(paragraph))
    /\ pc' = "split_loop"
    /\ UNCHANGED sentenceVars
    /\ UNCHANGED canonVars /\ UNCHANGED anchorVars /\ UNCHANGED planVars
    /\ UNCHANGED tableVars
    /\ UNCHANGED filterVars
    /\ UNCHANGED viewVars
    /\ UNCHANGED readerVars
    /\ UNCHANGED retryVars
    /\ UNCHANGED structuredVars
    /\ UNCHANGED buildVars
    /\ UNCHANGED chunkVars
    /\ UNCHANGED jobVars

InLoop == pc = "split_loop" /\ split_i < Len(paragraph)

AtTerminator == InLoop /\ At(paragraph, split_i) \in TERMINATORS

\* a character other than ".", "?", "!"
SplitAdvance ==
    /\ InLoop
    /\ At(paragraph, split_i) \notin TERMINATORS
    /\ split_i' = split_i + 1
    /\ UNCHANGED <<pc, paragraph, base_offset, split_start, sentences>>
    /\ UNCHANGED canonVars /\ UNCHANGED anchorVars /\ UNCHANGED planVars
    /\ UNCHANGED tableVars
    /\ UNCHANGED filterVars
    /\ UNCHANGED viewVars
    /\ UNCHANGED readerVars
    /\ UNCHANGED retryVars
    /\ UNCHANGED structuredVars
    /\ UNCHANGED buildVars
    /\ UNCHANGED chunkVars
    /\ UNCHANGED jobVars

\* a terminator after an abbreviation that the text continues
SplitAbbreviation ==
    /\ AtTerminator
    /\ AbbreviationContinues(paragraph, split_start, split_i)
    /\ split_i' = split_i + 1
    /\ UNCHANGED <<pc, paragraph, base_offset, split_start, sentences>>
    /\ UNCHANGED canonVars /\ UNCHANGED anchorVars /\ UNCHANGED planVars
    /\ UNCHANGED tableVars
    /\ UNCHANGED filterVars
    /\ UNCHANGED viewVars
    /\ UNCHANGED readerVars
    /\ UNCHANGED retryVars
    /\ UNCHANGED structuredVars
    /\ UNCHANGED buildVars
    /\ UNCHANGED chunkVars
    /\ UNCHANGED jobVars

\* a terminator with a lower-case letter right after it
SplitLowercase ==
    /\ AtTerminator
    /\ ~AbbreviationContinues(paragraph, split_start, split_i)
    /\ LowercaseContinues(paragraph, split_i)
    /\ split_i' = split_i + 1
    /\ UNCHANGED <<pc, paragraph, base_offset, split_start, sentences>>
    /\ UNCHANGED canonVars /\ UNCHANGED anchorVars /\ UNCHANGED planVars
    /\ UNCHANGED tableVars
    /\ UNCHANGED filterVars
    /\ UNCHANGED viewVars
    /\ UNCHANGED readerVars
    /\ UNCHANGED retryVars
    /\ UNCHANGED structuredVars
    /\ UNCHANGED buildVars
    /\ UNCHANGED chunkVars
    /\ UNCHANGED jobVars

\* a terminator that ends a sentence
SplitBoundary ==
    /\ AtTerminator
    /\ ~AbbreviationContinues(paragraph, split_start, split_i)
    /\ ~LowercaseContinues(paragraph, split_i)
    /\ sentences' = WithSentence(sentences, paragraph, base_offset, split_start, split_i + 1)
    /\ split_start' = split_i + 1
    /\ split_i' = split_i + 1
    /\ UNCHANGED <<pc, paragraph, base_offset>>
    /\ UNCHANGED canonVars /\ UNCHANGED anchorVars /\ UNCHANGED planVars
    /\ UNCHANGED tableVars
    /\ UNCHANGED filterVars
    /\ UNCHANGED viewVars
    /\ UNCHANGED readerVars
    /\ UNCHANGED retryVars
    /\ UNCHANGED structuredVars
    /\ UNCHANGED buildVars
    /\ UNCHANGED chunkVars
    /\ UNCHANGED jobVars

\* the text left after the last boundary
SplitRemainder ==
    /\ pc = "split_loop"
    /\ split_i >= Len(paragraph)
    /\ sentences' = IF split_start < Len(paragraph)
                    THEN WithSentence(sentences, paragraph, base_offset, split_start, Len(paragraph))
                    ELSE sentences
    /\ pc' = "split_done"
    /\ UNCHANGED <<paragraph, base_offset, split_start, split_i>>
    /\ UNCHANGED canonVars /\ UNCHANGED anchorVars /\ UNCHANGED planVars
    /\ UNCHANGED tableVars
    /\ UNCHANGED filterVars
    /\ UNCHANGED viewVars
    /\ UNCHANGED readerVars
    /\ UNCHANGED retryVars
    /\ UNCHANGED structuredVars
    /\ UNCHANGED buildVars
    /\ UNCHANGED chunkVars
    /\ UNCHANGED jobVars

NextSentences ==
    \/ SplitPipeTable
    \/ SplitEnter
    \/ SplitAdvance
    \/ SplitAbbreviation
    \/ SplitLowercase
    \/ SplitBoundary
    \/ SplitRemainder

SpecSentences == InitSentences /\ [][NextSentences]_vars

\* the whitespace-delimited token of s that ends at index k
TokenEndingAt(s, k) == LastToken(Slice(s, 0, k + 1))

\* index k holds a "." that ends a listed abbreviation and the text goes on
\* with a letter, a digit or an underscore
AbbreviationStop(s, k) ==
    /\ At(s, k) = "."
    /\ LowerChars(TokenEndingAt(s, k)) \in ABBREVIATIONS
    /\ LET next_non_space == NextNonSpaceChar(s, k + 1)
       IN  next_non_space # EMPTY /\ (IsAlnum(next_non_space) \/ next_non_space = "_")

MrSmithAgreed == <<"M","r",".">> \o <<" ">> \o <<"S","m","i","t","h">> \o <<" ","a","g","r","e","e","d",".">>

\* C12: no sentence ends at a "." that closes an abbreviation token followed,
\* after optional whitespace, by an alphanumeric character or underscore; and
\* "Mr. Smith agreed." is one sentence spanning the whole string.
C12_AbbreviationNotBoundary ==
    pc = "split_done" =>
        /\ \A k \in 0 .. (Len(paragraph) - 1) :
              AbbreviationStop(paragraph, k) =>
                  \A n \in DOMAIN sentences : sentences[n][2] # base_offset + k + 1
        /\ paragraph = MrSmithAgreed =>
              sentences = <<<<base_offset, base_offset + Len(paragraph)>>>>

----------------------------------------------------------------------------
(* CanonicalDocumentBuilder._classify_structured_table                     *)

MaxGridRows == 3

BLACK_SQUARE == "U+25A0"
BULLET == "U+2022"

PLACEHOLDER_GLYPHS ==
    {<<BLACK_SQUARE>>, <<"U+00A8">>, <<"U+25A1">>, <<"U+2610">>, <<NBSP>>,
     <<"&","n","b","s","p",";">>, <<BULLET>>}

\* text.replace("\xa0", " ")
ReplaceNbsp(s) == [k \in DOMAIN s |-> IF s[k] = NBSP THEN " " ELSE s[k]]

IsPlaceholderCell(cell) ==
    LET stripped == Strip(ReplaceNbsp(cell))
    IN  \/ stripped = <<>>
        \/ stripped \in PLACEHOLDER_GLYPHS
        \/ Len(stripped) <= 3 /\ \A k \in DOMAIN stripped : <<stripped[k]>> \in PLACEHOLDER_GLYPHS

\* a search for "0" alone
HasDigitZeroOnly(cell) == \E k \in DOMAIN cell : cell[k] = "0"

\* re.search(r"\d", cell)
HasDigit(cell) == \E k \in DOMAIN cell : cell[k] \in Digits

RECURSIVE SumLengths(_)
SumLengths(cells) ==
    IF cells = <<>> THEN 0 ELSE Len(Head(cells)) + SumLengths(Tail(cells))

\* max(len(row) for row in grid)
NumCols(rows) ==
    CHOOSE n \in {Len(rows[r]) : r \in DOMAIN rows} : \A r \in DOMAIN rows : Len(rows[r]) <= n

\* the ratios are compared as fractions: p / t > 3 / 10 and p / t > 1 / 2
classify_structured_table(rows) ==
    IF rows = <<>> THEN "empty"
    ELSE
    LET cells == Concat(rows)
        num_cols == NumCols(rows)
        total_cells == Len(cells)
        placeholder_cells == Cardinality({k \in DOMAIN cells : IsPlaceholderCell(cells[k])})
        cell_lengths == SelectSeq(cells, LAMBDA cell : cell # <<>>)
        avg_len_above_60 ==
            cell_lengths # <<>> /\ SumLengths(cell_lengths) > 60 * Len(cell_lengths)
        contains_numeric == \E k \in DOMAIN cell_lengths : HasDigit(cell_lengths[k])
    IN  IF num_cols <= 2 /\ (avg_len_above_60 \/ (total_cells > 0 /\ 10 * placeholder_cells > 3 * total_cells))
        THEN "layout_prose"
        ELSE IF num_cols >= 3 /\ contains_numeric THEN "data"
        ELSE IF total_cells > 0 /\ 2 * placeholder_cells > total_cells THEN "layout_prose"
        ELSE "unknown"

Repeat(c, n) == [k \in 1 .. n |-> c]

\* cell texts: a long description, one of exactly 60 characters, a long one
\* with a figure, a short word, an amount, a placeholder glyph, nothing
LongCell == Repeat("a", 61)
SixtyCell == Repeat("a", 60)
LongFigureCell == <<"7">> \o Repeat("a", 60)

GridRows ==
    << <<>>,
       <<LongCell>>,
       <<LongCell, LongCell>>,
       <<SixtyCell, <<>>>>,
       <<LongCell, <<"a">>>>,
       <<LongFigureCell, LongCell>>,
       <<<<"7">>>>,
       <<<<"a">>, <<"a">>, <<"a">>>>,
       <<<<"a">>, <<"7">>, <<"a">>, <<"a">>>>,
       <<<<BLACK_SQUARE>>, <<BULLET>>, <<"7">>>>,
       <<<<BLACK_SQUARE>>, <<>>, <<"a">>>>,
       <<LongCell, LongCell, LongCell>> >>

Grids ==
    UNION {[1 .. n -> Range(GridRows)] : n \in 0 .. MaxGridRows}

InitTables ==
    /\ pc = "classify"
    /\ grid \in Grids
    /\ classification = ""
    /\ raw_text = <<>>
    /\ treat_as_html = FALSE
    /\ i = 0
    /\ canonical_chars = <<>>
    /\ char_sources = <<>>
    /\ pending_block_break = FALSE
    /\ last_was_space = FALSE
    /\ skip_stack = <<>>
    /\ text = <<>>
    /\ again = <<>>
    /\ chunk_size = 0
    /\ anchors = NoAnchors
    /\ ordered = <<>>
    /\ plan = NoPlan
    /\ errors = <<>>
    /\ raised = ""
    /\ SentenceIdle
    /\ FilterIdle
    /\ ViewIdle
    /\ ReaderIdle
    /\ RetryIdle
    /\ StructuredIdle
    /\ BuildIdle
    /\ ChunkIdle
    /\ JobIdle

\* classification = self._classify_structured_table(raw_grid)
ClassifyTable ==
    /\ pc = "classify"
    /\ classification' = classify_structured_table(grid)
    /\ pc' = "classified"
    /\ UNCHANGED grid
    /\ UNCHANGED canonVars /\ UNCHANGED anchorVars /\ UNCHANGED planVars
    /\ UNCHANGED sentenceVars
    /\ UNCHANGED filterVars
    /\ UNCHANGED viewVars
    /\ UNCHANGED readerVars
    /\ UNCHANGED retryVars
    /\ UNCHANGED structuredVars
    /\ UNCHANGED buildVars
    /\ UNCHANGED chunkVars
    /\ UNCHANGED jobVars

NextTables == ClassifyTable

SpecTables == InitTables /\ [][NextTables]_vars

\* the grid seen as a table
Columns == IF grid = <<>> THEN 0 ELSE NumCols(grid)
FilledCells == {rc \in {<<r, c>> : r \in DOMAIN grid, c \in 1 .. Columns} :
                   rc[2] <= Len(grid[rc[1]]) /\ grid[rc[1]][rc[2]] # <<>>}
SomeDigitCell == \E rc \in FilledCells : \E k \in DOMAIN grid[rc[1]][rc[2]] : grid[rc[1]][rc[2]][k] \in Digits
RECURSIVE TotalLength(_)
TotalLength(S) ==
    IF S = {} THEN 0
    ELSE LET rc == CHOOSE x \in S : TRUE
         IN  Len(grid[rc[1]][rc[2]]) + TotalLength(S \ {rc})
LongProse == FilledCells # {} /\ TotalLength(FilledCells) > 60 * Cardinality(FilledCells)

\* C13: a grid of three or more columns with a digit in some cell is "data";
\* a grid of at most two columns of long text (average length of the
\* non-empty cells above 60) without digits is "layout_prose".
C13_TableClassified ==
    pc = "classified" =>
        /\ (Columns >= 3 /\ SomeDigitCell) => classification = "data"
        /\ (Columns <= 2 /\ LongProse /\ ~SomeDigitCell) => classification = "layout_prose"

C13_Witness ==
    /\ pc = "classified"
    /\ Columns = 4
    /\ SomeDigitCell
    /\ Len(grid) >= 2
    /\ \E r \in DOMAIN grid : Len(grid[r]) <= 2 /\ \E c \in DOMAIN grid[r] : Len(grid[r][c]) > 60
    /\ classification = "data"

----------------------------------------------------------------------------
(* filters.detect_binary_segment                                           *)

MaxHtmlFragments == 3

BINARY_DOC_TYPE_KEYWORDS ==
    << <<"G","R","A","P","H","I","C">>, <<"I","M","A","G","E">>, <<"P","D","F">>,
       <<"P","N","G">>, <<"J","P","G">>, <<"J","P","E","G">>,
       <<"G","I","F">>, <<"T","I","F","F">>, <<"T","I","F">> >>

BINARY_DOC_TYPE_EXACT ==
    {<<"E","X","-","9","9",".","G">>, <<"E","X","-","9","9",".","H">>, <<"E","X","-","9","9",".","J">>,
     <<"E","X","-","9","9",".","K">>, <<"E","X","-","9","9",".","P">>, <<"E","X","-","9","9",".","Q">>,
     <<"E","X","-","9","9",".","G","1">>, <<"E","X","-","9","9",".","G","2">>, <<"E","X","-","9","9",".","H","1">>}

BINARY_FILENAME_SUFFIXES ==
    {<<".","P","D","F">>, <<".","P","N","G">>, <<".","J","P","G">>,
     <<".","J","P","E","G">>, <<".","G","I","F">>, <<".","T","I","F","F">>,
     <<".","T","I","F">>, <<".","B","M","P">>, <<".","S","V","G">>}

DOC_TYPE_KEYS == <<"doc_type", "type", "document_type", "document-type">>

FILENAME_KEYS == <<"filename", "file", "name">>

Upper(c) ==
    IF c \in Range(LowerLetters)
    THEN UpperLetters[CHOOSE k \in DOMAIN LowerLetters : LowerLetters[k] = c]
    ELSE c

UpperChars(s) == [k \in DOMAIN s |-> Upper(s[k])]

\* sub in s
Contains(s, sub) == FindSeq(s, sub, 0) >= 0

\* header.get(key); a header is a sequence of <<key, value>> pairs, its keys
\* distinct; <<>> stands for None, which the callers test like ""
HeaderGet(h, key) ==
    LET hits == {k \in DOMAIN h : h[k][1] = key}
    IN  IF hits = {} THEN <<>> ELSE h[CHOOSE k \in hits : TRUE][2]

RECURSIVE FirstTruthy(_, _, _)
FirstTruthy(h, keys, k) ==
    IF k > Len(keys) THEN <<>>
    ELSE IF HeaderGet(h, keys[k]) # <<>> THEN HeaderGet(h, keys[k])
    ELSE FirstTruthy(h, keys, k + 1)

extract_doc_type(h) == FirstTruthy(h, DOC_TYPE_KEYS, 1)

detect_binary_by_doc_type(doc_type) ==
    IF doc_type = <<>> THEN <<>>
    ELSE LET value == UpperChars(Strip(doc_type))
         IN  IF value \in BINARY_DOC_TYPE_EXACT THEN <<"doc_type:">> \o value
             ELSE IF \E k \in DOMAIN BINARY_DOC_TYPE_KEYWORDS :
                         Contains(value, BINARY_DOC_TYPE_KEYWORDS[k])
             THEN <<"doc_type:">> \o value
             ELSE <<>>

\* Path(candidate).suffix, for a candidate that does not end with "/"
PathSuffix(candidate) ==
    LET slashes == {k \in DOMAIN candidate : candidate[k] = "/"}
        name == IF slashes = {} THEN candidate
                ELSE SubSeq(candidate, (CHOOSE k \in slashes : \A m \in slashes : k >= m) + 1,
                            Len(candidate))
        dots == {k \in DOMAIN name : name[k] = "."}
        last == IF dots = {} THEN 0 ELSE CHOOSE k \in dots : \A m \in dots : k >= m
    IN  IF 1 < last /\ last < Len(name) THEN SubSeq(name, last, Len(name)) ELSE <<>>

RECURSIVE FilenameReason(_, _)
FilenameReason(h, k) ==
    IF k > Len(FILENAME_KEYS) THEN <<>>
    ELSE LET candidate == HeaderGet(h, FILENAME_KEYS[k])
         IN  IF candidate # <<>> /\ UpperChars(PathSuffix(candidate)) \in BINARY_FILENAME_SUFFIXES
             THEN <<"filename:">> \o candidate
             ELSE FilenameReason(h, k + 1)

detect_binary_by_header_filename(h) == FilenameReason(h, 1)

\* len(_ALNUM_RE.findall(_TAG_RE.sub(" ", html))) from index k on; _TAG_RE
\* is <[^>]+>
RECURSIVE AlnumOutsideTags(_, _)
AlnumOutsideTags(s, k) ==
    IF k >= Len(s) THEN 0
    ELSE LET close == Find(s, ">", k + 1, Len(s))
         IN  IF At(s, k) = "<" /\ close > k + 1 THEN AlnumOutsideTags(s, close + 1)
             ELSE (IF IsAlnum(At(s, k)) THEN 1 ELSE 0)
                  + AlnumOutsideTags(s, k + 1)

counts_as_image_only(s) == AlnumOutsideTags(s, 0) < 32

detect_binary_content(content) ==
    LET stripped == LStrip(content)
        lowered == LowerChars(stripped)
    IN  IF StartsWith(stripped, <<"%","p","d","f">>, 0) THEN <<"content:pdf_header">>
        ELSE IF Contains(lowered, <<"a","p","p","l","i","c","a","t","i","o","n","/","p","d","f">>) THEN <<"content:pdf_reference">>
        ELSE IF \/ Contains(lowered, <<"<","o","b","j","e","c","t">>)
                \/ Contains(lowered, <<"<","e","m","b","e","d">>)
                \/ Contains(lowered, <<"<","i","f","r","a","m","e">>)
             THEN <<"content:embedded_object">>
        ELSE IF \/ Contains(lowered, <<"d","a","t","a",":","a","p","p","l","i","c","a","t","i","o","n","/","p","d","f">>)
                \/ Contains(lowered, <<"d","a","t","a",":","i","m","a","g","e">>)
             THEN <<"content:data_uri">>
        ELSE IF \/ Contains(lowered, <<"c","o","n","t","e","n","t","-","t","r","a","n","s","f","e","r","-","e","n","c","o","d","i","n","g",":"," ","b","a","s","e","6","4">>)
                \/ Contains(lowered, <<"b","e","g","i","n"," ","b","a","s","e","6","4">>)
             THEN <<"content:base64_attachment">>
        ELSE IF Contains(lowered, <<"<","i","m","g">>) /\ counts_as_image_only(stripped)
             THEN <<"content:image_only">>
        ELSE <<>>

detect_binary_segment(h, content) ==
    IF detect_binary_by_doc_type(extract_doc_type(h)) # <<>>
    THEN detect_binary_by_doc_type(extract_doc_type(h))
    ELSE IF detect_binary_by_header_filename(h) # <<>>
    THEN detect_binary_by_header_filename(h)
    ELSE detect_binary_content(content)

\* headers as get_header_dict builds them: lower-case keys, non-empty values
Headers ==
    { <<>>,
      << <<"type", <<"E","X","-","9","9",".","G">>>> >>,
      << <<"type", <<"e","x","-","9","9",".","g"," ">>>> >>,
      << <<"type", <<"1","0","-","K">>>> >>,
      << <<"type", <<"1","0","-","K">>>>, <<"filename", <<"a",".","p","d","f">>>> >>,
      << <<"type", <<"1","0","-","K">>>>, <<"filename", <<"a",".","h","t","m">>>> >>,
      << <<"type", <<"G","R","A","P","H","I","C">>>> >>,
      << <<"description", <<"E","X","-","9","9",".","G">>>> >> }

HtmlFragments ==
    << <<"%","P","D","F">>, <<"%","p","d","f">>, <<" ">>, <<LF>>, <<"<","i","m","g",">">>,
       <<"<","o","b","j","e","c","t">>, <<"b","e","g","i","n"," ","b","a","s","e","6","4">>, Repeat("a", 32) >>

HtmlInputs ==
    {Concat([k \in DOMAIN f |-> HtmlFragments[f[k]]]) :
        f \in UNION {[1 .. n -> DOMAIN HtmlFragments] : n \in 0 .. MaxHtmlFragments}}

InitFilter ==
    /\ pc = "filter"
    /\ header \in Headers
    /\ raw_html \in HtmlInputs
    /\ skip_reason = <<>>
    /\ raw_text = <<>>
    /\ treat_as_html = FALSE
    /\ i = 0
    /\ canonical_chars = <<>>
    /\ char_sources = <<>>
    /\ pending_block_break = FALSE
    /\ last_was_space = FALSE
    /\ skip_stack = <<>>
    /\ text = <<>>
    /\ again = <<>>
    /\ chunk_size = 0
    /\ anchors = NoAnchors
    /\ ordered = <<>>
    /\ plan = NoPlan
    /\ errors = <<>>
    /\ raised = ""
    /\ SentenceIdle
    /\ TableIdle
    /\ ViewIdle
    /\ ReaderIdle
    /\ RetryIdle
    /\ StructuredIdle
    /\ BuildIdle
    /\ ChunkIdle
    /\ JobIdle

\* detect_binary_segment: the header's document type
FilterByDocType ==
    /\ pc = "filter"
    /\ LET reason == detect_binary_by_doc_type(extract_doc_type(header))
       IN  /\ skip_reason' = reason
           /\ pc' = IF reason # <<>> THEN "filtered" ELSE "filter_filename"
    /\ UNCHANGED <<header, raw_html>>
    /\ UNCHANGED canonVars /\ UNCHANGED anchorVars /\ UNCHANGED planVars
    /\ UNCHANGED sentenceVars
    /\ UNCHANGED tableVars
    /\ UNCHANGED viewVars
    /\ UNCHANGED readerVars
    /\ UNCHANGED retryVars
    /\ UNCHANGED structuredVars
    /\ UNCHANGED buildVars
    /\ UNCHANGED chunkVars
    /\ UNCHANGED jobVars

\* detect_binary_segment: the header's file name
FilterByFilename ==
    /\ pc = "filter_filename"
    /\ LET reason == detect_binary_by_header_filename(header)
       IN  /\ skip_reason' = reason
           /\ pc' = IF reason # <<>> THEN "filtered" ELSE "filter_content"
    /\ UNCHANGED <<header, raw_html>>
    /\ UNCHANGED canonVars /\ UNCHANGED anchorVars /\ UNCHANGED planVars
    /\ UNCHANGED sentenceVars
    /\ UNCHANGED tableVars
    /\ UNCHANGED viewVars
    /\ UNCHANGED readerVars
    /\ UNCHANGED retryVars
    /\ UNCHANGED structuredVars
    /\ UNCHANGED buildVars
    /\ UNCHANGED chunkVars
    /\ UNCHANGED jobVars

\* detect_binary_segment: the content, and the return
FilterByContent ==
    /\ pc = "filter_content"
    /\ skip_reason' = detect_binary_content(raw_html)
    /\ pc' = "filtered"
    /\ UNCHANGED <<header, raw_html>>
    /\ UNCHANGED canonVars /\ UNCHANGED anchorVars /\ UNCHANGED planVars
    /\ UNCHANGED sentenceVars
    /\ UNCHANGED tableVars
    /\ UNCHANGED viewVars
    /\ UNCHANGED readerVars
    /\ UNCHANGED retryVars
    /\ UNCHANGED structuredVars
    /\ UNCHANGED buildVars
    /\ UNCHANGED chunkVars
    /\ UNCHANGED jobVars

NextFilter ==
    \/ FilterByDocType
    \/ FilterByFilename
    \/ FilterByContent

SpecFilter == InitFilter /\ [][NextFilter]_vars

\* C14: the filter returns a reason for every segment whose header document
\* type is "EX-99.G" and for every segment whose content, after leading
\* whitespace, starts with "%PDF".
C14_BinaryFlagged ==
    pc = "filtered" =>
        /\ extract_doc_type(header) = <<"E","X","-","9","9",".","G">> => skip_reason # <<>>
        /\ StartsWith(LStrip(raw_html), <<"%","P","D","F">>, 0) => skip_reason # <<>>

----------------------------------------------------------------------------
(* anchoring.build_prompt_view                                             *)

MaxViewAnchors == 3

ANCHOR_KIND_SENTENCE == "s"
ANCHOR_KIND_DEFINITION == "d"
ANCHOR_KIND_TABLE_CELL == "t"
ANCHOR_KIND_PARAGRAPH == "p"
ANCHOR_KIND_HEADING == "h"

LBRACKET == "U+27E6"
RBRACKET == "U+27E7"
BACKTICK == "U+0060"

\* re.sub(r"\s+", " ", s)
RECURSIVE CollapseWhitespace(_)
CollapseWhitespace(s) ==
    IF s = <<>> THEN <<>>
    ELSE IF IsSpace(Head(s))
         THEN IF Len(s) > 1 /\ IsSpace(s[2]) THEN CollapseWhitespace(Tail(s))
              ELSE <<" ">> \o CollapseWhitespace(Tail(s))
    ELSE <<Head(s)>> \o CollapseWhitespace(Tail(s))

\* sep.join(parts)
RECURSIVE JoinWith(_, _)
JoinWith(sep, parts) ==
    IF parts = <<>> THEN <<>>
    ELSE IF Len(parts) = 1 THEN parts[1]
    ELSE parts[1] \o sep \o JoinWith(sep, Tail(parts))

\* the header of a table-cell line; an attribute that is absent is <<>>
HeaderText(attributes) ==
    LET header_parts ==
            (IF attributes.row_header # <<>> THEN <<attributes.row_header>> ELSE <<>>)
            \o (IF attributes.col_header # <<>> THEN <<attributes.col_header>> ELSE <<>>)
    IN  IF header_parts # <<>> THEN JoinWith(<<" ", "|", " ">>, header_parts)
        ELSE <<"T","a","b","l","e"," ">> \o attributes.table_index \o <<" ", "r">>
             \o attributes.row_index \o <<" ", "c">> \o attributes.col_index

Tag(anchor) == <<LBRACKET>> \o anchor.anchor_id \o <<RBRACKET>>

Snippet(doc, anchor) == Strip(Slice(doc.text, anchor.start, anchor.end))

Renderable(anchor) ==
    anchor.kind \in {ANCHOR_KIND_SENTENCE, ANCHOR_KIND_DEFINITION, ANCHOR_KIND_TABLE_CELL}

TableCellLine(anchor, snippet) ==
    Tag(anchor) \o <<" ">> \o HeaderText(anchor.attributes) \o <<":", " ">>
    \o CollapseWhitespace(snippet)

MarkdownLine(anchor, snippet) ==
    Tag(anchor) \o <<" ">> \o <<BACKTICK, BACKTICK, BACKTICK, "m","a","r","k","d","o","w","n">> \o <<LF>> \o Strip(snippet) \o <<LF>>
    \o <<BACKTICK, BACKTICK, BACKTICK>>

SentenceLine(anchor, snippet) == Tag(anchor) \o <<" ">> \o CollapseWhitespace(snippet)

\* the pieces a document is made of: kind, text, table attributes
NoAttributes ==
    [table_index |-> <<>>, row_index |-> <<>>, col_index |-> <<>>,
     row_header |-> <<>>, col_header |-> <<>>]

CellAttributes(row_header, col_header) ==
    [table_index |-> <<"0">>, row_index |-> <<"1">>, col_index |-> <<"2">>,
     row_header |-> row_header, col_header |-> col_header]

ViewPieces ==
    << [kind |-> ANCHOR_KIND_HEADING, text |-> <<"A","R","T","I","C","L","E"," ","I">>, attributes |-> NoAttributes],
       [kind |-> ANCHOR_KIND_PARAGRAPH, text |-> <<"a"," ","b",".">>, attributes |-> NoAttributes],
       [kind |-> ANCHOR_KIND_SENTENCE, text |-> <<"a"," "," ","b",".">>, attributes |-> NoAttributes],
       [kind |-> ANCHOR_KIND_SENTENCE, text |-> <<"a","\n","b",".">>, attributes |-> NoAttributes],
       [kind |-> ANCHOR_KIND_DEFINITION, text |-> <<"x"," ","m","e","a","n","s"," ","y",".">>, attributes |-> NoAttributes],
       [kind |-> ANCHOR_KIND_SENTENCE, text |-> <<"|"," ","a"," ","|","\n","|"," ","-","-","-"," ","|","\n","|"," ","1"," ","|">>, attributes |-> NoAttributes],
       [kind |-> ANCHOR_KIND_TABLE_CELL, text |-> <<" ","7"," ">>,
        attributes |-> CellAttributes(<<"R","a","t","e">>, <<"2","0","2","4">>)],
       [kind |-> ANCHOR_KIND_TABLE_CELL, text |-> <<"|"," ","-","-","-">>,
        attributes |-> CellAttributes(<<>>, <<>>)],
       [kind |-> ANCHOR_KIND_TABLE_CELL, text |-> <<" ">>,
        attributes |-> CellAttributes(<<>>, <<"2","0","2","4">>)] >>

\* f"{kind}{counter:06d}", the counter below 10
AnchorIdOf(kind, counter) ==
    <<kind>> \o Repeat("0", 5)
    \o <<CHOOSE d \in Digits : d = ToString(counter)>>

\* the pieces laid out one per line, each with its anchor
RECURSIVE OffsetOf(_, _)
OffsetOf(pieces, k) ==
    IF k = 1 THEN 0 ELSE OffsetOf(pieces, k - 1) + Len(pieces[k - 1].text) + 1

DocumentOf(pieces) ==
    [text |-> JoinWith(<<LF>>, [k \in DOMAIN pieces |-> pieces[k].text]),
     anchors |-> [k \in DOMAIN pieces |->
                     [anchor_id |-> AnchorIdOf(pieces[k].kind, k),
                      kind |-> pieces[k].kind,
                      start |-> OffsetOf(pieces, k),
                      end |-> OffsetOf(pieces, k) + Len(pieces[k].text),
                      attributes |-> pieces[k].attributes]]]

Documents ==
    {DocumentOf([k \in DOMAIN f |-> ViewPieces[f[k]]]) :
        f \in UNION {[1 .. n -> DOMAIN ViewPieces] : n \in 0 .. MaxViewAnchors}}

InitView ==
    /\ pc = "view"
    /\ document \in Documents
    /\ view_i = 0
    /\ lines = <<>>
    /\ prompt_view = <<>>
    /\ view_error = ""
    /\ raw_text = <<>>
    /\ treat_as_html = FALSE
    /\ i = 0
    /\ canonical_chars = <<>>
    /\ char_sources = <<>>
    /\ pending_block_break = FALSE
    /\ last_was_space = FALSE
    /\ skip_stack = <<>>
    /\ text = <<>>
    /\ again = <<>>
    /\ chunk_size = 0
    /\ anchors = NoAnchors
    /\ ordered = <<>>
    /\ plan = NoPlan
    /\ errors = <<>>
    /\ raised = ""
    /\ SentenceIdle
    /\ TableIdle
    /\ FilterIdle
    /\ ReaderIdle
    /\ RetryIdle
    /\ StructuredIdle
    /\ BuildIdle
    /\ ChunkIdle
    /\ JobIdle

AtAnchor == pc = "view" /\ view_i < Len(document.anchors)
ThisAnchor == document.anchors[view_i + 1]
ThisSnippet == Snippet(document, ThisAnchor)

\* a heading or paragraph anchor: continue
ViewSkip ==
    /\ AtAnchor
    /\ ~Renderable(ThisAnchor)
    /\ view_i' = view_i + 1
    /\ UNCHANGED <<pc, document, lines, prompt_view, view_error>>
    /\ UNCHANGED canonVars /\ UNCHANGED anchorVars /\ UNCHANGED planVars
    /\ UNCHANGED sentenceVars
    /\ UNCHANGED tableVars
    /\ UNCHANGED filterVars
    /\ UNCHANGED readerVars
    /\ UNCHANGED retryVars
    /\ UNCHANGED structuredVars
    /\ UNCHANGED buildVars
    /\ UNCHANGED chunkVars
    /\ UNCHANGED jobVars

\* raise ValueError(f"Anchor {anchor.anchor_id} has empty snippet.")
ViewEmptySnippet ==
    /\ AtAnchor
    /\ Renderable(ThisAnchor)
    /\ ThisSnippet = <<>>
    /\ view_error' = "ValueError"
    /\ pc' = "viewed"
    /\ UNCHANGED <<document, view_i, lines, prompt_view>>
    /\ UNCHANGED canonVars /\ UNCHANGED anchorVars /\ UNCHANGED planVars
    /\ UNCHANGED sentenceVars
    /\ UNCHANGED tableVars
    /\ UNCHANGED filterVars
    /\ UNCHANGED readerVars
    /\ UNCHANGED retryVars
    /\ UNCHANGED structuredVars
    /\ UNCHANGED buildVars
    /\ UNCHANGED chunkVars
    /\ UNCHANGED jobVars

ViewTableCell ==
    /\ AtAnchor
    /\ ThisAnchor.kind = ANCHOR_KIND_TABLE_CELL
    /\ ThisSnippet # <<>>
    /\ lines' = Append(lines, TableCellLine(ThisAnchor, ThisSnippet))
    /\ view_i' = view_i + 1
    /\ UNCHANGED <<pc, document, prompt_view, view_error>>
    /\ UNCHANGED canonVars /\ UNCHANGED anchorVars /\ UNCHANGED planVars
    /\ UNCHANGED sentenceVars
    /\ UNCHANGED tableVars
    /\ UNCHANGED filterVars
    /\ UNCHANGED readerVars
    /\ UNCHANGED retryVars
    /\ UNCHANGED structuredVars
    /\ UNCHANGED buildVars
    /\ UNCHANGED chunkVars
    /\ UNCHANGED jobVars

\* a sentence or definition whose snippet is a Markdown table
ViewMarkdownTable ==
    /\ AtAnchor
    /\ ThisAnchor.kind \in {ANCHOR_KIND_SENTENCE, ANCHOR_KIND_DEFINITION}
    /\ ThisSnippet # <<>>
    /\ IsPipeTable(ThisSnippet)
    /\ lines' = Append(lines, MarkdownLine(ThisAnchor, ThisSnippet))
    /\ view_i' = view_i + 1
    /\ UNCHANGED <<pc, document, prompt_view, view_error>>
    /\ UNCHANGED canonVars /\ UNCHANGED anchorVars /\ UNCHANGED planVars
    /\ UNCHANGED sentenceVars
    /\ UNCHANGED tableVars
    /\ UNCHANGED filterVars
    /\ UNCHANGED readerVars
    /\ UNCHANGED retryVars
    /\ UNCHANGED structuredVars
    /\ UNCHANGED buildVars
    /\ UNCHANGED chunkVars
    /\ UNCHANGED jobVars

ViewSentence ==
    /\ AtAnchor
    /\ ThisAnchor.kind \in {ANCHOR_KIND_SENTENCE, ANCHOR_KIND_DEFINITION}
    /\ ThisSnippet # <<>>
    /\ ~IsPipeTable(ThisSnippet)
    /\ lines' = Append(lines, SentenceLine(ThisAnchor, ThisSnippet))
    /\ view_i' = view_i + 1
    /\ UNCHANGED <<pc, document, prompt_view, view_error>>
    /\ UNCHANGED canonVars /\ UNCHANGED anchorVars /\ UNCHANGED planVars
    /\ UNCHANGED sentenceVars
    /\ UNCHANGED tableVars
    /\ UNCHANGED filterVars
    /\ UNCHANGED readerVars
    /\ UNCHANGED retryVars
    /\ UNCHANGED structuredVars
    /\ UNCHANGED buildVars
    /\ UNCHANGED chunkVars
    /\ UNCHANGED jobVars

\* return "\n".join(lines)
ViewJoin ==
    /\ pc = "view"
    /\ view_i >= Len(document.anchors)
    /\ prompt_view' = JoinWith(<<LF>>, lines)
    /\ pc' = "viewed"
    /\ UNCHANGED <<document, view_i, lines, view_error>>
    /\ UNCHANGED canonVars /\ UNCHANGED anchorVars /\ UNCHANGED planVars
    /\ UNCHANGED sentenceVars
    /\ UNCHANGED tableVars
    /\ UNCHANGED filterVars
    /\ UNCHANGED readerVars
    /\ UNCHANGED retryVars
    /\ UNCHANGED structuredVars
    /\ UNCHANGED buildVars
    /\ UNCHANGED chunkVars
    /\ UNCHANGED jobVars

NextView ==
    \/ ViewSkip
    \/ ViewEmptySnippet
    \/ ViewTableCell
    \/ ViewMarkdownTable
    \/ ViewSentence
    \/ ViewJoin

SpecView == InitView /\ [][NextView]_vars

\* the lines of a text: the pieces between its newlines, none for no text
RECURSIVE LinesOf(_)
LinesOf(s) ==
    IF s = <<>> THEN <<>>
    ELSE LET breaks == {k \in DOMAIN s : s[k] = LF}
         IN  IF breaks = {} THEN <<s>>
             ELSE LET first == CHOOSE k \in breaks : \A m \in breaks : k <= m
                  IN  <<SubSeq(s, 1, first - 1)>>
                      \o (IF first = Len(s) THEN <<<<>>>> ELSE LinesOf(SubSeq(s, first + 1, Len(s))))

Addressable == SelectSeq(document.anchors, Renderable)

\* C15: the returned text has one line per sentence, definition and
\* table-cell anchor, in the anchors' order, each starting with its anchor id
\* in brackets; heading and paragraph anchors have no line.
C15_OneLinePerAnchor ==
    (pc = "viewed" /\ view_error = "") =>
        /\ Len(LinesOf(prompt_view)) = Len(Addressable)
        /\ \A k \in DOMAIN Addressable :
              k <= Len(LinesOf(prompt_view)) =>
                  StartsWith(LinesOf(prompt_view)[k], Tag(Addressable[k]), 0)

----------------------------------------------------------------------------
(* extractor.extract_from_manifest and workflow.normalize_from_manifest:   *)
(* the TarSegmentReader handles they open.                                 *)

MaxManifestRows == 3

\* the archives on disk: tar file -> member -> the segments of the member,
\* each either prose or a binary payload
Archives ==
    [tar \in {"a.tar.gz", "b.tar.gz"} |->
        [member \in {"x.nc"} |-> IF tar = "a.tar.gz" THEN <<"prose">> ELSE <<"prose", "binary">>]]

ManifestRows ==
    [tarfile : {"a.tar.gz", "b.tar.gz", "missing.tar.gz"},
     file : {"x.nc", "y.nc"},
     segment_no : {1, 2}]

Manifests == UNION {[1 .. n -> ManifestRows] : n \in 0 .. MaxManifestRows}

\* TarSegmentReader.__init__ keeps the tarfile handle open; close() closes it
OpenedReader == "open"
ClosedReader == "closed"

\* readers[tar_path] = reader
WithReader(rs, tar) == [p \in DOMAIN rs \cup {tar} |-> IF p = tar THEN OpenedReader ELSE rs[p]]

\* for reader in readers.values(): reader.close()
CloseAll(rs) == [p \in DOMAIN rs |-> ClosedReader]

InitReaders ==
    /\ pc = "loop"
    /\ called \in {"extract_from_manifest", "normalize_from_manifest"}
    /\ manifest \in Manifests
    /\ filter_fn \in {"default_filter", "custom"}
    /\ called = "normalize_from_manifest" => filter_fn = "default_filter"
    /\ row_i = 0
    /\ readers = <<>>
    /\ extractors = {}
    /\ records = <<>>
    /\ exit_with = ""
    /\ raw_text = <<>>
    /\ treat_as_html = FALSE
    /\ i = 0
    /\ canonical_chars = <<>>
    /\ char_sources = <<>>
    /\ pending_block_break = FALSE
    /\ last_was_space = FALSE
    /\ skip_stack = <<>>
    /\ text = <<>>
    /\ again = <<>>
    /\ chunk_size = 0
    /\ anchors = NoAnchors
    /\ ordered = <<>>
    /\ plan = NoPlan
    /\ errors = <<>>
    /\ raised = ""
    /\ SentenceIdle
    /\ TableIdle
    /\ FilterIdle
    /\ ViewIdle
    /\ RetryIdle
    /\ StructuredIdle
    /\ BuildIdle
    /\ ChunkIdle
    /\ JobIdle

Row == manifest[row_i + 1]
ExtractorKey == <<Row.tarfile, Row.file>>

\* every variable but those the step changes
ReaderFrame ==
    /\ UNCHANGED <<called, manifest, filter_fn>>
    /\ UNCHANGED canonVars /\ UNCHANGED anchorVars /\ UNCHANGED planVars
    /\ UNCHANGED sentenceVars
    /\ UNCHANGED tableVars
    /\ UNCHANGED filterVars
    /\ UNCHANGED viewVars
    /\ UNCHANGED retryVars
    /\ UNCHANGED structuredVars
    /\ UNCHANGED buildVars
    /\ UNCHANGED chunkVars
    /\ UNCHANGED jobVars

\* an exception leaves the function: nothing after the raising statement runs
Propagate(exception) ==
    /\ exit_with' = exception
    /\ pc' = "exited"
    /\ UNCHANGED <<row_i, readers, extractors, records>>
    /\ ReaderFrame

\* for row in manifest.itertuples(index=False)
NextRow ==
    /\ pc = "loop"
    /\ row_i < Len(manifest)
    /\ pc' = "open"
    /\ UNCHANGED <<row_i, readers, extractors, records, exit_with>>
    /\ ReaderFrame

\* reader = TarSegmentReader(tar_path)
OpenReader ==
    /\ pc = "open"
    /\ Row.tarfile \notin DOMAIN readers
    /\ Row.tarfile \in DOMAIN Archives
    /\ readers' = WithReader(readers, Row.tarfile)
    /\ pc' = "read"
    /\ UNCHANGED <<row_i, extractors, records, exit_with>>
    /\ ReaderFrame

\* tarfile.open raises for an archive that is not there
OpenReaderFails ==
    /\ pc = "open"
    /\ Row.tarfile \notin DOMAIN readers
    /\ Row.tarfile \notin DOMAIN Archives
    /\ Propagate("FileNotFoundError")

\* reader = readers.get(tar_path) finds the reader
ReuseReader ==
    /\ pc = "open"
    /\ Row.tarfile \in DOMAIN readers
    /\ pc' = "read"
    /\ UNCHANGED <<row_i, readers, extractors, records, exit_with>>
    /\ ReaderFrame

\* extractor = SegmentExtractor(reader.read_member(file_name))
ReadMember ==
    /\ pc = "read"
    /\ ExtractorKey \notin extractors
    /\ Row.file \in DOMAIN Archives[Row.tarfile]
    /\ extractors' = extractors \cup {ExtractorKey}
    /\ pc' = "index"
    /\ UNCHANGED <<row_i, readers, records, exit_with>>
    /\ ReaderFrame

\* read_member raises FileNotFoundError for a member that is not there
ReadMemberFails ==
    /\ pc = "read"
    /\ ExtractorKey \notin extractors
    /\ Row.file \notin DOMAIN Archives[Row.tarfile]
    /\ Propagate("FileNotFoundError")

ReuseExtractor ==
    /\ pc = "read"
    /\ ExtractorKey \in extractors
    /\ pc' = "index"
    /\ UNCHANGED <<row_i, readers, extractors, records, exit_with>>
    /\ ReaderFrame

Segments == Archives[Row.tarfile][Row.file]

\* extractor.get_segment_header / get_segment_html (segment_index)
IndexSegment ==
    /\ pc = "index"
    /\ Row.segment_no <= Len(Segments)
    /\ pc' = IF called = "extract_from_manifest" THEN "filter_fn" ELSE "normalize"
    /\ UNCHANGED <<row_i, readers, extractors, records, exit_with>>
    /\ ReaderFrame

\* self.segment_positions[index] raises IndexError
IndexSegmentFails ==
    /\ pc = "index"
    /\ Row.segment_no > Len(Segments)
    /\ Propagate("IndexError")

\* skip_reason = active_filter(header, raw_html, context), a reason returned
FilterSkips ==
    /\ pc = "filter_fn"
    /\ \/ filter_fn = "custom"
       \/ filter_fn = "default_filter" /\ Segments[Row.segment_no] = "binary"
    /\ records' = Append(records, [row |-> Row, skipped |-> TRUE])
    /\ row_i' = row_i + 1
    /\ pc' = "loop"
    /\ UNCHANGED <<readers, extractors, exit_with>>
    /\ ReaderFrame

\* no reason returned
FilterKeeps ==
    /\ pc = "filter_fn"
    /\ \/ filter_fn = "custom"
       \/ filter_fn = "default_filter" /\ Segments[Row.segment_no] # "binary"
    /\ pc' = "write"
    /\ UNCHANGED <<row_i, readers, extractors, records, exit_with>>
    /\ ReaderFrame

\* a filter callback of the caller that raises
FilterFails ==
    /\ pc = "filter_fn"
    /\ filter_fn = "custom"
    /\ Propagate("ValueError")

\* out_path.write_text(html, encoding="utf-8"), then the record
WriteOutput ==
    /\ pc = "write"
    /\ records' = Append(records, [row |-> Row, skipped |-> FALSE])
    /\ row_i' = row_i + 1
    /\ pc' = "loop"
    /\ UNCHANGED <<readers, extractors, exit_with>>
    /\ ReaderFrame

\* the output directory cannot be written
WriteFails ==
    /\ pc = "write"
    /\ Propagate("OSError")

\* normalize_from_manifest: the record reads reader.last_encoding, an
\* attribute TarSegmentReader does not have
NormalizeRecord ==
    /\ pc = "normalize"
    /\ Propagate("AttributeError")

\* the loop is over: close every reader, return the records
CloseReaders ==
    /\ pc = "loop"
    /\ row_i >= Len(manifest)
    /\ readers' = CloseAll(readers)
    /\ exit_with' = "return"
    /\ pc' = "exited"
    /\ UNCHANGED <<row_i, extractors, records>>
    /\ ReaderFrame

NextReaders ==
    \/ NextRow
    \/ OpenReader
    \/ OpenReaderFails
    \/ ReuseReader
    \/ ReadMember
    \/ ReadMemberFails
    \/ ReuseExtractor
    \/ IndexSegment
    \/ IndexSegmentFails
    \/ FilterSkips
    \/ FilterKeeps
    \/ FilterFails
    \/ WriteOutput
    \/ WriteFails
    \/ NormalizeRecord
    \/ CloseReaders

SpecReaders == InitReaders /\ [][NextReaders]_vars

\* C16: once the function is left, by return or by an exception, every
\* reader it opened is closed.
C16_ReadersClosed ==
    pc = "exited" => \A p \in DOMAIN readers : readers[p] = ClosedReader

----------------------------------------------------------------------------
(* OpenAIResponsesClient.create_response and PromptRunner.run_prompt       *)

MaxAttempts == 3

OK == "HTTP 200"

\* what a request can end in other than a response with status 200
Failures == {"HTTP 429", "HTTP 500", "network error"}

InitRetry ==
    /\ pc = "request"
    /\ client \in {"create_response", "run_prompt"}
    /\ budget \in 0 .. MaxAttempts
    /\ attempt = 0
    /\ responses = <<>>
    /\ last_error = "None"
    /\ outcome = ""
    /\ reported = <<>>
    /\ raw_text = <<>>
    /\ treat_as_html = FALSE
    /\ i = 0
    /\ canonical_chars = <<>>
    /\ char_sources = <<>>
    /\ pending_block_break = FALSE
    /\ last_was_space = FALSE
    /\ skip_stack = <<>>
    /\ text = <<>>
    /\ again = <<>>
    /\ chunk_size = 0
    /\ anchors = NoAnchors
    /\ ordered = <<>>
    /\ plan = NoPlan
    /\ errors = <<>>
    /\ raised = ""
    /\ SentenceIdle
    /\ TableIdle
    /\ FilterIdle
    /\ ViewIdle
    /\ ReaderIdle
    /\ StructuredIdle
    /\ BuildIdle
    /\ ChunkIdle
    /\ JobIdle

RetryFrame ==
    /\ UNCHANGED <<client, budget>>
    /\ UNCHANGED canonVars /\ UNCHANGED anchorVars /\ UNCHANGED planVars
    /\ UNCHANGED sentenceVars
    /\ UNCHANGED tableVars
    /\ UNCHANGED filterVars
    /\ UNCHANGED viewVars
    /\ UNCHANGED readerVars
    /\ UNCHANGED structuredVars
    /\ UNCHANGED buildVars
    /\ UNCHANGED chunkVars
    /\ UNCHANGED jobVars

\* create_response: requests.post answers 200, return response.json()
PostSucceeds ==
    /\ pc = "request"
    /\ client = "create_response"
    /\ attempt' = attempt + 1
    /\ responses' = Append(responses, OK)
    /\ outcome' = "return"
    /\ pc' = "called"
    /\ UNCHANGED <<last_error, reported>>
    /\ RetryFrame

\* create_response: a failed attempt with attempts left; sleep and loop
PostFails ==
    /\ pc = "request"
    /\ client = "create_response"
    /\ attempt + 1 < budget
    /\ \E error \in Failures :
          /\ responses' = Append(responses, error)
          /\ last_error' = error
    /\ attempt' = attempt + 1
    /\ UNCHANGED <<pc, outcome, reported>>
    /\ RetryFrame

\* create_response: a failed attempt with attempt >= self.max_retries
PostFailsLast ==
    /\ pc = "request"
    /\ client = "create_response"
    /\ attempt + 1 >= budget
    /\ \E error \in Failures :
          /\ responses' = Append(responses, error)
          /\ last_error' = error
          /\ reported' = <<attempt + 1, error>>
    /\ attempt' = attempt + 1
    /\ outcome' = "RuntimeError"
    /\ pc' = "called"
    /\ RetryFrame

\* run_prompt: responses.create answers, return response.output_text.strip()
CreateSucceeds ==
    /\ pc = "request"
    /\ client = "run_prompt"
    /\ attempt < budget
    /\ responses' = Append(responses, OK)
    /\ outcome' = "return"
    /\ pc' = "called"
    /\ UNCHANGED <<attempt, last_error, reported>>
    /\ RetryFrame

\* run_prompt: except Exception as exc: last_error = exc; time.sleep(1)
CreateFails ==
    /\ pc = "request"
    /\ client = "run_prompt"
    /\ attempt < budget
    /\ \E error \in Failures :
          /\ responses' = Append(responses, error)
          /\ last_error' = error
    /\ attempt' = attempt + 1
    /\ UNCHANGED <<pc, outcome, reported>>
    /\ RetryFrame

\* run_prompt: the loop is over, raise RuntimeError
AttemptsExhausted ==
    /\ pc = "request"
    /\ client = "run_prompt"
    /\ attempt >= budget
    /\ reported' = <<budget, last_error>>
    /\ outcome' = "RuntimeError"
    /\ pc' = "called"
    /\ UNCHANGED <<attempt, responses, last_error>>
    /\ RetryFrame

NextRetry ==
    \/ PostSucceeds
    \/ PostFails
    \/ PostFailsLast
    \/ CreateSucceeds
    \/ CreateFails
    \/ AttemptsExhausted

SpecRetry == InitRetry /\ [][NextRetry]_vars

\* C17: a call with attempt budget N issues at most N requests, returns on
\* the first success without a further request, and when every attempt
\* failed raises a RuntimeError naming the attempts made and the last error;
\* it never returns after a failure.
C17_AttemptBudget ==
    /\ Len(responses) <= budget
    /\ \A k \in 1 .. (Len(responses) - 1) : responses[k] # OK
    /\ outcome = "return" => (responses # <<>> /\ responses[Len(responses)] = OK)
    /\ outcome = "RuntimeError" =>
          /\ \A k \in DOMAIN responses : responses[k] \in Failures
          /\ reported[1] = Len(responses)
          /\ responses # <<>> => reported[2] = responses[Len(responses)]
    /\ pc = "called" => outcome \in {"return", "RuntimeError"}

----------------------------------------------------------------------------
(* The canonicalize run over skipped content: HTML inputs made of text,    *)
(* script and style tags, comments and line breaks.                        *)

MaxSkipFragments == 5

SkipFragments ==
    << <<"x">>, <<" ">>,
       <<"<", "s", "c", "r", "i", "p", "t", ">">>,
       <<"<", "/", "s", "c", "r", "i", "p", "t", ">">>,
       <<"<", "s", "t", "y", "l", "e", ">">>,
       <<"<", "/", "S", "T", "Y", "L", "E", ">">>,
       <<"<", "b", "r", ">">>,
       <<"<", "!", "-", "-">>, <<"-", "-", ">">> >>

SkipInputs ==
    {Concat([k \in DOMAIN f |-> SkipFragments[f[k]]]) :
        f \in UNION {[1 .. n -> DOMAIN SkipFragments] :
                        n \in 0 .. MaxSkipFragments}}

InitSkip ==
    /\ pc = "process"
    /\ raw_text \in SkipInputs
    /\ treat_as_html = TRUE
    /\ i = 0
    /\ canonical_chars = <<>>
    /\ char_sources = <<>>
    /\ pending_block_break = FALSE
    /\ last_was_space = FALSE
    /\ skip_stack = <<>>
    /\ text = <<>>
    /\ again = <<>>
    /\ chunk_size = 0
    /\ anchors = NoAnchors
    /\ ordered = <<>>
    /\ plan = NoPlan
    /\ errors = <<>>
    /\ raised = ""
    /\ SentenceIdle
    /\ TableIdle
    /\ FilterIdle
    /\ ViewIdle
    /\ ReaderIdle
    /\ RetryIdle
    /\ StructuredIdle
    /\ BuildIdle
    /\ ChunkIdle
    /\ JobIdle

NextSkip ==
    \/ SkipStep
    \/ TagStep
    \/ TextStep
    \/ HtmlDone
    \/ Finish

SpecSkip == InitSkip /\ [][NextSkip]_vars

\* the input positions strictly between the start tag of a script, style or
\* noscript element and its matching end tag, same-named start tags inside
\* the element counted as nested; an element never closed runs to the end
RECURSIVE InsideSkipElement(_, _, _, _)
InsideSkipElement(raw, k, name, depth) ==
    IF k >= Len(raw) THEN {}
    ELSE IF At(raw, k) # "<"
    THEN (IF depth > 0 THEN {k} ELSE {})
             \cup InsideSkipElement(raw, k + 1, name, depth)
    ELSE LET parsed == ParseTag(raw, k)
             token == parsed.token
             opens == ~token.none /\ token.is_start
                      /\ (IF depth = 0 THEN token.name \in SKIP_CONTENT_TAGS
                          ELSE token.name = name)
             closes == ~token.none /\ ~token.is_start /\ depth > 0
                       /\ token.name = name
             after == IF opens THEN depth + 1
                      ELSE IF closes THEN depth - 1 ELSE depth
         IN  (IF depth > 0 /\ after > 0 THEN k .. (parsed.new_index - 1) ELSE {})
                 \cup InsideSkipElement(raw, parsed.new_index,
                                        IF depth = 0 THEN token.name ELSE name,
                                        after)

\* C21: in HTML mode no input character between the start tag of a script,
\* style or noscript element and that element's matching end tag reaches the
\* canonical text or its provenance, also when a same-named element is nested
\* inside it and when the element is never closed.
C21_SkippedContentDropped ==
    (Returned /\ treat_as_html) =>
        \A k \in DOMAIN char_sources :
            char_sources[k] # None =>
                \A p \in char_sources[k].start .. (char_sources[k].end - 1) :
                    p \notin InsideSkipElement(raw_text, 0, "", 0)

----------------------------------------------------------------------------
(* Provenance pointers of the canonicalize output.                         *)

\* C22: in every canonicalize output the non-null provenance pointers are
\* ordered by non-decreasing start, each has 0 <= start < end <=
\* len(raw_text), and in HTML mode the character at an index of the text has
\* a null pointer exactly when it is a newline (the newlines of HTML mode are
\* the ones inserted for <br> and for paragraph breaks).
C22_ProvenanceOrdered ==
    Returned =>
        /\ \A j, k \in DOMAIN char_sources :
              (j < k /\ char_sources[j] # None /\ char_sources[k] # None)
                  => char_sources[j].start <= char_sources[k].start
        /\ \A k \in DOMAIN char_sources :
              char_sources[k] # None =>
                  /\ 0 <= char_sources[k].start
                  /\ char_sources[k].start < char_sources[k].end
                  /\ char_sources[k].end <= Len(raw_text)
        /\ treat_as_html =>
              \A k \in DOMAIN text :
                  /\ k \in DOMAIN char_sources
                  /\ (char_sources[k] = None) <=> (text[k] = LF)

----------------------------------------------------------------------------
(* anchoring.py: CanonicalDocumentBuilder._process_structured_table.  A    *)
(* table is the sequence of its <tr> rows, a row the sequence of its       *)
(* <th>/<td> cells, a cell its text and its rowspan and colspan.           *)

MaxTableRows == 2
MaxRowCells == 2
MaxSpan == 2

VT == "U+000B"
EM_DASH == "U+2014"
EN_DASH == "U+2013"

\* re.sub(r"[ \t\r\f\v]+", " ", s)
RECURSIVE CollapseBlanks(_)
CollapseBlanks(s) ==
    IF s = <<>> THEN <<>>
    ELSE IF Head(s) \in {" ", TAB, CR, FF, VT}
         THEN IF Len(s) > 1 /\ s[2] \in {" ", TAB, CR, FF, VT}
              THEN CollapseBlanks(Tail(s))
              ELSE <<" ">> \o CollapseBlanks(Tail(s))
    ELSE <<Head(s)>> \o CollapseBlanks(Tail(s))

\* re.sub(r"\n{2,}", "\n", s)
RECURSIVE CollapseNewlines(_)
CollapseNewlines(s) ==
    IF s = <<>> THEN <<>>
    ELSE IF Head(s) = LF /\ Len(s) > 1 /\ s[2] = LF
         THEN CollapseNewlines(Tail(s))
    ELSE <<Head(s)>> \o CollapseNewlines(Tail(s))

\* _normalize_whitespace
NormalizeWhitespace(s) == Strip(CollapseNewlines(CollapseBlanks(Unescape(s))))

\* _clean_cell_text
CleanCellText(s) ==
    LET cleaned == Strip(ReplaceNbsp(s))
    IN  IF cleaned = <<>> THEN <<>>
        ELSE IF cleaned \in PLACEHOLDER_GLYPHS THEN <<>>
        ELSE IF Len(cleaned) <= 3
                /\ \A k \in DOMAIN cleaned : <<cleaned[k]>> \in PLACEHOLDER_GLYPHS
             THEN <<>>
        ELSE IF cleaned \in {<<EM_DASH>>, <<"-">>, <<EN_DASH>>} THEN <<>>
        ELSE cleaned

\* one line of _serialize_layout_table, <<>> for a row that is skipped
LayoutLine(row) ==
    LET cleaned_cells ==
            SelectSeq([k \in DOMAIN row |-> CleanCellText(row[k])],
                      LAMBDA cell : cell # <<>>)
    IN  IF cleaned_cells = <<>> THEN <<>>
        ELSE IF Len(cleaned_cells) >= 2
        THEN LET label == cleaned_cells[1]
                 value == Strip(JoinWith(<<" ">>, Tail(cleaned_cells)))
             IN  IF value # <<>> /\ Len(label) <= 120
                 THEN label \o <<":", " ">> \o value
                 ELSE JoinWith(<<" ">>, cleaned_cells)
        ELSE cleaned_cells[1]

\* _serialize_layout_table
SerializeLayoutTable(rows) ==
    JoinWith(<<LF>>,
             SelectSeq([r \in DOMAIN rows |-> LayoutLine(rows[r])],
                       LAMBDA line : line # <<>>))

\* _markdown_escape
RECURSIVE MarkdownEscape(_)
MarkdownEscape(s) ==
    IF s = <<>> THEN <<>>
    ELSE (IF Head(s) = "|" THEN <<"\\", "|">>
          ELSE IF Head(s) = LF THEN <<" ">>
          ELSE <<Head(s)>>) \o MarkdownEscape(Tail(s))

\* str(n)
RECURSIVE Decimal(_)
Decimal(n) ==
    LET digit == <<"0", "1", "2", "3", "4", "5", "6", "7", "8", "9">>[(n % 10) + 1]
    IN  IF n < 10 THEN <<digit>> ELSE Decimal(n \div 10) \o <<digit>>

\* "| " + " | ".join(parts) + " |"
PipeLine(parts) == <<"|", " ">> \o JoinWith(<<" ", "|", " ">>, parts) \o <<" ", "|">>

\* _render_markdown_table
RenderMarkdownTable(rows) ==
    LET filled == SelectSeq(rows, LAMBDA row : \E k \in DOMAIN row : row[k] # <<>>)
    IN  IF filled = <<>> THEN <<>>
        ELSE
        LET headers ==
                [k \in DOMAIN filled[1] |->
                    IF filled[1][k] # <<>> THEN MarkdownEscape(filled[1][k])
                    ELSE <<"C","o","l","u","m","n"," ">> \o Decimal(k)]
            data_rows ==
                SelectSeq([r \in DOMAIN Tail(filled) |->
                              [k \in DOMAIN Tail(filled)[r] |->
                                  MarkdownEscape(Tail(filled)[r][k])]],
                          LAMBDA row : \E k \in DOMAIN row : row[k] # <<>>)
        IN  IF data_rows = <<>> THEN <<>>
            ELSE JoinWith(<<LF>>,
                     <<PipeLine(headers),
                       PipeLine([k \in DOMAIN headers |-> <<"-", "-", "-">>])>>
                     \o [r \in DOMAIN data_rows |-> PipeLine(data_rows[r])])

\* row.extend([""] * (max_cols - len(row)))
PadRow(row, width) ==
    IF Len(row) < width THEN row \o [k \in 1 .. (width - Len(row)) |-> <<>>] ELSE row

\* the text block _process_structured_table returns for the grid it built
StructuredTableText(rows, width) ==
    IF classify_structured_table(rows) = "layout_prose"
    THEN SerializeLayoutTable(rows)
    ELSE RenderMarkdownTable(
             [r \in DOMAIN rows |->
                 PadRow([k \in DOMAIN rows[r] |-> CleanCellText(rows[r][k])], width)])

Cell(cell_text, rowspan, colspan) ==
    [text |-> cell_text, rowspan |-> rowspan, colspan |-> colspan]

\* the text of a cell of the tables explored names its row and its position
CellText(r, k) == <<"r">> \o Decimal(r) \o <<"c">> \o Decimal(k)

RowsAt(r) ==
    UNION {{[k \in 1 .. n |-> Cell(CellText(r, k), f[k][1], f[k][2])] :
               f \in [1 .. n -> (1 .. MaxSpan) \X (1 .. MaxSpan)]} :
           n \in 0 .. MaxRowCells}

StructuredTables ==
    UNION {{t \in [1 .. n -> UNION {RowsAt(r) : r \in 1 .. n}] :
               \A r \in 1 .. n : t[r] \in RowsAt(r)} :
           n \in 1 .. MaxTableRows}

InitStructured ==
    /\ pc = "table_lead"
    /\ tr_rows \in StructuredTables
    /\ row_idx = 0
    /\ td_idx = 0
    /\ col_idx = 0
    /\ row_cells = <<>>
    /\ span_map = <<>>
    /\ raw_grid = <<>>
    /\ max_cols = 0
    /\ text_block = <<>>
    /\ raw_text = <<>>
    /\ treat_as_html = FALSE
    /\ i = 0
    /\ canonical_chars = <<>>
    /\ char_sources = <<>>
    /\ pending_block_break = FALSE
    /\ last_was_space = FALSE
    /\ skip_stack = <<>>
    /\ text = <<>>
    /\ again = <<>>
    /\ chunk_size = 0
    /\ anchors = NoAnchors
    /\ ordered = <<>>
    /\ plan = NoPlan
    /\ errors = <<>>
    /\ raised = ""
    /\ SentenceIdle
    /\ TableIdle
    /\ FilterIdle
    /\ ViewIdle
    /\ ReaderIdle
    /\ RetryIdle
    /\ BuildIdle
    /\ ChunkIdle
    /\ JobIdle

Pending == <<row_idx, col_idx>> \in DOMAIN span_map

\* the body of "while (row_idx, col_idx) in spans"
ResolveSpan ==
    LET span == span_map[<<row_idx, col_idx>>]
        carried == IF span.rowspan > 1
                   THEN (<<row_idx + 1, col_idx>> :>
                            [rowspan |-> span.rowspan - 1,
                             colspan |-> span.colspan, text |-> span.text])
                        @@ span_map
                   ELSE span_map
    IN  /\ row_cells' = Append(row_cells, span.text)
        /\ span_map' = [key \in DOMAIN carried \ {<<row_idx, col_idx>>} |-> carried[key]]
        /\ col_idx' = col_idx + 1
        /\ UNCHANGED <<pc, tr_rows, row_idx, td_idx, raw_grid, max_cols, text_block>>
        /\ UNCHANGED canonVars /\ UNCHANGED anchorVars /\ UNCHANGED planVars
        /\ UNCHANGED sentenceVars
        /\ UNCHANGED tableVars
        /\ UNCHANGED filterVars
        /\ UNCHANGED viewVars
        /\ UNCHANGED readerVars
        /\ UNCHANGED retryVars
    /\ UNCHANGED buildVars
    /\ UNCHANGED chunkVars
    /\ UNCHANGED jobVars

\* the loop over pending spans at the start of a row
ResolveLeading == pc = "table_lead" /\ Pending /\ ResolveSpan

\* the loop over the cells of the row begins
StartCells ==
    /\ pc = "table_lead" /\ ~Pending
    /\ pc' = "table_cells"
    /\ UNCHANGED structuredVars
    /\ UNCHANGED canonVars /\ UNCHANGED anchorVars /\ UNCHANGED planVars
    /\ UNCHANGED sentenceVars
    /\ UNCHANGED tableVars
    /\ UNCHANGED filterVars
    /\ UNCHANGED viewVars
    /\ UNCHANGED readerVars
    /\ UNCHANGED retryVars
    /\ UNCHANGED buildVars
    /\ UNCHANGED chunkVars
    /\ UNCHANGED jobVars

\* the loop over pending spans in front of the next cell of the row
ResolvePending ==
    pc = "table_cells" /\ td_idx < Len(tr_rows[row_idx + 1]) /\ Pending /\ ResolveSpan

\* the entries a cell with a rowspan or colspan above 1 registers
SpansOf(cell_text, rowspan, colspan) ==
    [key \in {<<row_idx + r, col_idx + c>> :
                 r \in 0 .. (rowspan - 1), c \in 0 .. (colspan - 1)}
             \ {<<row_idx, col_idx>>} |->
        [rowspan |-> rowspan - (key[1] - row_idx),
         colspan |-> colspan - (key[2] - col_idx), text |-> cell_text]]

\* the next cell of the row is placed at the column cursor
PlaceCell ==
    /\ pc = "table_cells" /\ td_idx < Len(tr_rows[row_idx + 1]) /\ ~Pending
    /\ LET cell == tr_rows[row_idx + 1][td_idx + 1]
           cell_text == NormalizeWhitespace(cell.text)
       IN  /\ row_cells' = Append(row_cells, cell_text)
           /\ span_map' = SpansOf(cell_text, cell.rowspan, cell.colspan) @@ span_map
    /\ col_idx' = col_idx + 1
    /\ td_idx' = td_idx + 1
    /\ UNCHANGED <<pc, tr_rows, row_idx, raw_grid, max_cols, text_block>>
    /\ UNCHANGED canonVars /\ UNCHANGED anchorVars /\ UNCHANGED planVars
    /\ UNCHANGED sentenceVars
    /\ UNCHANGED tableVars
    /\ UNCHANGED filterVars
    /\ UNCHANGED viewVars
    /\ UNCHANGED readerVars
    /\ UNCHANGED retryVars
    /\ UNCHANGED buildVars
    /\ UNCHANGED chunkVars
    /\ UNCHANGED jobVars

\* the row has no more cells: it joins the grid
EndRow ==
    /\ pc = "table_cells" /\ td_idx >= Len(tr_rows[row_idx + 1])
    /\ max_cols' = IF Len(row_cells) > max_cols THEN Len(row_cells) ELSE max_cols
    /\ raw_grid' = Append(raw_grid, row_cells)
    /\ row_idx' = row_idx + 1
    /\ td_idx' = 0
    /\ col_idx' = 0
    /\ row_cells' = <<>>
    /\ pc' = IF row_idx + 1 < Len(tr_rows) THEN "table_lead" ELSE "table_grid"
    /\ UNCHANGED <<tr_rows, span_map, text_block>>
    /\ UNCHANGED canonVars /\ UNCHANGED anchorVars /\ UNCHANGED planVars
    /\ UNCHANGED sentenceVars
    /\ UNCHANGED tableVars
    /\ UNCHANGED filterVars
    /\ UNCHANGED viewVars
    /\ UNCHANGED readerVars
    /\ UNCHANGED retryVars
    /\ UNCHANGED buildVars
    /\ UNCHANGED chunkVars
    /\ UNCHANGED jobVars

\* classification, cleaning, padding and rendering of the grid
FinishTable ==
    /\ pc = "table_grid"
    /\ text_block' = StructuredTableText(raw_grid, max_cols)
    /\ pc' = "table_done"
    /\ UNCHANGED <<tr_rows, row_idx, td_idx, col_idx, row_cells, span_map,
                   raw_grid, max_cols>>
    /\ UNCHANGED canonVars /\ UNCHANGED anchorVars /\ UNCHANGED planVars
    /\ UNCHANGED sentenceVars
    /\ UNCHANGED tableVars
    /\ UNCHANGED filterVars
    /\ UNCHANGED viewVars
    /\ UNCHANGED readerVars
    /\ UNCHANGED retryVars
    /\ UNCHANGED buildVars
    /\ UNCHANGED chunkVars
    /\ UNCHANGED jobVars

NextStructured ==
    \/ ResolveLeading
    \/ StartCells
    \/ ResolvePending
    \/ PlaceCell
    \/ EndRow
    \/ FinishTable

SpecStructured == InitStructured /\ [][NextStructured]_vars

\* the grid column at which the cell placed k-th in row r (both from 1) sits:
\* cell texts are distinct, and a cell's own position precedes the positions
\* its text is propagated to
PlacedAt(r, k) ==
    LET cell_text == NormalizeWhitespace(tr_rows[r][k].text)
        columns == {c \in DOMAIN raw_grid[r] : raw_grid[r][c] = cell_text}
    IN  CHOOSE c \in columns : \A d \in columns : c <= d

\* the columns row r occupies: its own cells and the cells spanning into it
RowWidth(r) ==
    LET reaching == {rk \in {<<q, k>> \in (1 .. (r - 1)) \X (1 .. MaxRowCells) :
                               k \in DOMAIN tr_rows[q]} :
                        rk[1] + tr_rows[rk[1]][rk[2]].rowspan - 1 >= r}
        own == [k \in DOMAIN tr_rows[r] |-> Repeat("c", tr_rows[r][k].colspan)]
        above == {<<rk, c>> \in reaching \X (1 .. MaxSpan) :
                     c <= tr_rows[rk[1]][rk[2]].colspan}
    IN  SumLengths(own) + Cardinality(above)

Rectangular ==
    /\ \A r \in DOMAIN tr_rows : RowWidth(r) = RowWidth(1)
    /\ \A r \in DOMAIN tr_rows : \A k \in DOMAIN tr_rows[r] :
          r + tr_rows[r][k].rowspan - 1 <= Len(tr_rows)

\* C27: once _process_structured_table has built the grid, the text of a
\* cell with rowspan r and colspan c placed at (row, col) stands at every
\* position (row + i, col + j), 0 <= i < r, 0 <= j < c, of the table, the last
\* cell of a row included; all rows of a rectangular table have the same
\* number of columns; and the pending-span map is empty.
C27_SpansMaterialized ==
    pc = "table_done" =>
        /\ \A r \in DOMAIN tr_rows : \A k \in DOMAIN tr_rows[r] :
              \A x \in 0 .. (tr_rows[r][k].rowspan - 1) :
              \A y \in 0 .. (tr_rows[r][k].colspan - 1) :
                  r + x <= Len(tr_rows) =>
                      /\ PlacedAt(r, k) + y \in DOMAIN raw_grid[r + x]
                      /\ raw_grid[r + x][PlacedAt(r, k) + y]
                             = NormalizeWhitespace(tr_rows[r][k].text)
        /\ Rectangular =>
              \A r \in DOMAIN raw_grid : Len(raw_grid[r]) = Len(raw_grid[1])
        /\ DOMAIN span_map = {}

----------------------------------------------------------------------------
(* anchoring.py: CanonicalDocumentBuilder.build.  The blocks _iter_blocks  *)
(* yields are the input: a text block is its text, a table block the rows  *)
(* of a <table> with <tr> rows and no spanning cells.  The checksum and    *)
(* context hashes of an anchor record are left out.                        *)

MaxElements == 3

QUOTE == "\""

\* f"{n:06d}"
ZeroPad6(n) ==
    LET digits == Decimal(n)
    IN  IF Len(digits) >= 6 THEN digits ELSE Repeat("0", 6 - Len(digits)) \o digits

\* str.isupper()
IsUpperStr(s) ==
    /\ \E k \in DOMAIN s : s[k] \in Range(UpperLetters)
    /\ \A k \in DOMAIN s : s[k] \notin Range(LowerLetters)

\* len(s.split())
RECURSIVE WordCount(_)
WordCount(s) ==
    IF s = <<>> THEN 0
    ELSE (IF ~IsSpace(Head(s)) /\ (Len(s) = 1 \/ IsSpace(s[2])) THEN 1 ELSE 0)
         + WordCount(Tail(s))

\* _is_heading
IsHeading(s) ==
    LET stripped == Strip(s)
    IN  IF stripped = <<>> THEN FALSE
        ELSE \/ Len(stripped) <= 140 /\ IsUpperStr(stripped)
             \/ StartsWith(stripped, <<"S","e","c","t","i","o","n"," ">>, 0)
             \/ StartsWith(stripped, <<"A","R","T","I","C","L","E"," ">>, 0)
             \/ Last(stripped) = ":" /\ WordCount(stripped) <= 10

\* _looks_like_definition: re.search(r'\"[^"]+\"\s+means\s+', text)
LooksLikeDefinition(s) ==
    \E a, b, c \in 0 .. Len(s) :
        /\ a + 1 < b /\ b < c /\ c + 5 < Len(s)
        /\ At(s, a) = QUOTE /\ At(s, b) = QUOTE
        /\ \A k \in (a + 1) .. (b - 1) : At(s, k) # QUOTE
        /\ \A k \in (b + 1) .. (c - 1) : IsSpace(At(s, k))
        /\ b + 1 < c
        /\ StartsWith(s, <<"m","e","a","n","s">>, c)
        /\ IsSpace(At(s, c + 5))

\* _split_sentences: the loop from index k, the sentence so far starting at
\* from
RECURSIVE SplitLoop(_, _, _, _, _)
SplitLoop(s, base, from, k, found) ==
    IF k >= Len(s)
    THEN IF from < Len(s) THEN WithSentence(found, s, base, from, Len(s)) ELSE found
    ELSE IF At(s, k) \notin TERMINATORS THEN SplitLoop(s, base, from, k + 1, found)
    ELSE IF AbbreviationContinues(s, from, k) \/ LowercaseContinues(s, k)
    THEN SplitLoop(s, base, from, k + 1, found)
    ELSE SplitLoop(s, base, k + 1, k + 1, WithSentence(found, s, base, from, k + 1))

\* spans relative to the paragraph instead of the document
SplitSentencesNoBase(s, base) ==
    IF IsPipeTable(LStrip(s))
    THEN <<<<LeadingSpaces(s), Len(s)>>>>
    ELSE SplitLoop(s, 0, 0, 0, <<>>)

\* _split_sentences
SplitSentences(s, base) ==
    IF IsPipeTable(LStrip(s))
    THEN <<<<base + LeadingSpaces(s), base + Len(s)>>>>
    ELSE SplitLoop(s, base, 0, 0, <<>>)

\* the snippet of a sentence span that gets no anchor
PUNCTUATION_ONLY == {".", "*", BULLET, "U+00B7", " ", NBSP}

AnchorRecord(anchor_id, kind, start, end, parent_heading) ==
    [anchor_id |-> anchor_id, kind |-> kind, start |-> start, end |-> end,
     prev_id |-> <<>>, next_id |-> <<>>, parent_heading |-> parent_heading]

\* _build_paragraph_anchors
BuildParagraphAnchors(paragraphs) ==
    [k \in DOMAIN paragraphs |->
        AnchorRecord(<<"p">> \o ZeroPad6(k),
                     IF IsHeading(paragraphs[k].text) THEN ANCHOR_KIND_HEADING
                     ELSE ANCHOR_KIND_PARAGRAPH,
                     paragraphs[k].start, paragraphs[k].end, <<>>)]

\* _build_sentence_anchors: the loop over the sentences of one paragraph
RECURSIVE SentenceLoop(_, _, _, _, _)
SentenceLoop(found, canonical, active_heading_id, counter, made) ==
    IF found = <<>> THEN [anchors |-> made, counter |-> counter]
    ELSE LET start == Head(found)[1]
             end == Head(found)[2]
             snippet == Strip(Slice(canonical, start, end))
         IN  IF snippet = <<>>
                \/ \A k \in DOMAIN snippet : snippet[k] \in PUNCTUATION_ONLY
             THEN SentenceLoop(Tail(found), canonical, active_heading_id, counter, made)
             ELSE SentenceLoop(Tail(found), canonical, active_heading_id, counter + 1,
                      Append(made,
                          AnchorRecord(<<"s">> \o ZeroPad6(counter + 1),
                                       IF LooksLikeDefinition(snippet)
                                       THEN ANCHOR_KIND_DEFINITION
                                       ELSE ANCHOR_KIND_SENTENCE,
                                       start, end, active_heading_id)))

\* a heading index that never moves
AdvanceHeadingNever(heading_iter, heading_idx, paragraph_start) == heading_idx

\* the while loop that moves heading_idx past the headings ending at or
\* before the paragraph
RECURSIVE AdvanceHeading(_, _, _)
AdvanceHeading(heading_iter, heading_idx, paragraph_start) ==
    IF heading_idx < Len(heading_iter)
       /\ heading_iter[heading_idx + 1].end <= paragraph_start
    THEN AdvanceHeading(heading_iter, heading_idx + 1, paragraph_start)
    ELSE heading_idx

\* _build_sentence_anchors: the loop over the paragraphs
RECURSIVE ParagraphLoop(_, _, _, _, _, _, _)
ParagraphLoop(paragraphs, canonical, heading_iter, heading_idx,
              active_heading_id, counter, made) ==
    IF paragraphs = <<>> THEN made
    ELSE LET segment == Head(paragraphs)
             idx == AdvanceHeading(heading_iter, heading_idx, segment.start)
             active == IF idx < Len(heading_iter)
                          /\ heading_iter[idx + 1].start <= segment.start
                       THEN heading_iter[idx + 1].anchor_id
                       ELSE active_heading_id
             step == SentenceLoop(SplitSentences(segment.text, segment.start),
                                  canonical, active, counter, made)
         IN  ParagraphLoop(Tail(paragraphs), canonical, heading_iter, idx,
                           active, step.counter, step.anchors)

\* _build_sentence_anchors
BuildSentenceAnchors(canonical, paragraphs, recs) ==
    ParagraphLoop(paragraphs, canonical,
                  SortByStart(SelectSeq(recs,
                                        LAMBDA rec : rec.kind = ANCHOR_KIND_HEADING)),
                  0, <<>>, 0, <<>>)

\* a chain linked forwards only
LinkNeighborIdsForwardOnly(recs) ==
    [idx \in DOMAIN recs |->
        [recs[idx] EXCEPT
            !.next_id = IF idx + 1 <= Len(recs) THEN recs[idx + 1].anchor_id
                        ELSE <<>>]]

\* _link_neighbor_ids
LinkNeighborIds(recs) ==
    [idx \in DOMAIN recs |->
        [recs[idx] EXCEPT
            !.prev_id = IF idx > 1 THEN recs[idx - 1].anchor_id ELSE <<>>,
            !.next_id = IF idx + 1 <= Len(recs) THEN recs[idx + 1].anchor_id
                        ELSE <<>>]]

\* _assign_parent_heading
RECURSIVE AssignParentHeading(_, _)
AssignParentHeading(recs, active_heading) ==
    IF recs = <<>> THEN <<>>
    ELSE LET anchor == Head(recs)
         IN  IF anchor.kind = ANCHOR_KIND_HEADING
             THEN <<anchor>> \o AssignParentHeading(Tail(recs), anchor.anchor_id)
             ELSE IF anchor.parent_heading # <<>>
             THEN <<anchor>> \o AssignParentHeading(Tail(recs), active_heading)
             ELSE <<[anchor EXCEPT !.parent_heading = active_heading]>>
                  \o AssignParentHeading(Tail(recs), active_heading)

\* s.rstrip("\n")
RECURSIVE RStripNewlines(_)
RStripNewlines(s) ==
    IF s # <<>> /\ Last(s) = LF THEN RStripNewlines(Pop(s)) ELSE s

TextElement(element_text) == [is_table |-> FALSE, text |-> element_text, rows |-> <<>>]
TableElement(rows) == [is_table |-> TRUE, text |-> <<>>, rows |-> rows]

\* the blocks explored: a heading in capitals, two sentences, an ellipsis, a
\* definition, a blank, a heading with a colon, a text with an empty line, a
\* lone bullet, a table with a data row and a table with a header row only
Elements ==
    << TextElement(<<"A", "B">>),
       TextElement(<<"a", ".", " ", "b">>),
       TextElement(<<".", ".", ".">>),
       TextElement(<<QUOTE, "X", QUOTE, " ", "m", "e", "a", "n", "s", " ", "y", ".">>),
       TextElement(<<" ">>),
       TextElement(<<"N", "o", "t", "e", ":">>),
       TextElement(<<"x", LF, LF, " ", "y", ".">>),
       TextElement(<<BULLET>>),
       TableElement(<< <<<<"a">>, <<"1">>>>, <<<<"b">>, <<"2">>>> >>),
       TableElement(<< <<<<"a">>>> >>) >>

ElementLists ==
    UNION {[1 .. n -> Range(Elements)] : n \in 0 .. MaxElements}

\* _process_structured_table on a table without spanning cells
TableTextBlock(rows) ==
    LET normalized == [r \in DOMAIN rows |->
                          [k \in DOMAIN rows[r] |-> NormalizeWhitespace(rows[r][k])]]
    IN  StructuredTableText(normalized, NumCols(normalized))

InitBuild ==
    /\ pc = "blocks"
    /\ elements \in ElementLists
    /\ element_i = 0
    /\ chunk_list = <<>>
    /\ offset = 0
    /\ paragraph_segments = <<>>
    /\ table_idx = 0
    /\ doc_text = <<>>
    /\ paragraph_records = <<>>
    /\ sentence_records = <<>>
    /\ doc_anchors = <<>>
    /\ build_raised = ""
    /\ raw_text = <<>>
    /\ treat_as_html = FALSE
    /\ i = 0
    /\ canonical_chars = <<>>
    /\ char_sources = <<>>
    /\ pending_block_break = FALSE
    /\ last_was_space = FALSE
    /\ skip_stack = <<>>
    /\ text = <<>>
    /\ again = <<>>
    /\ chunk_size = 0
    /\ anchors = NoAnchors
    /\ ordered = <<>>
    /\ plan = NoPlan
    /\ errors = <<>>
    /\ raised = ""
    /\ SentenceIdle
    /\ TableIdle
    /\ FilterIdle
    /\ ViewIdle
    /\ ReaderIdle
    /\ RetryIdle
    /\ StructuredIdle
    /\ ChunkIdle
    /\ JobIdle

AtElement == pc = "blocks" /\ element_i < Len(elements)
Element == elements[element_i + 1]

\* what build leaves alone while it runs
BuildFrame ==
    /\ UNCHANGED canonVars /\ UNCHANGED anchorVars /\ UNCHANGED planVars
    /\ UNCHANGED sentenceVars
    /\ UNCHANGED tableVars
    /\ UNCHANGED filterVars
    /\ UNCHANGED viewVars
    /\ UNCHANGED readerVars
    /\ UNCHANGED retryVars
    /\ UNCHANGED structuredVars
    /\ UNCHANGED chunkVars
    /\ UNCHANGED jobVars

\* a block of text joins the chunks as a paragraph segment
AppendBlock(block) ==
    LET separated == chunk_list # <<>> /\ Last(Last(chunk_list)) # LF
        start == IF separated THEN offset + 1 ELSE offset
    IN  /\ chunk_list' = (IF separated THEN Append(chunk_list, <<LF>>) ELSE chunk_list)
                         \o <<block, <<LF>>>>
        /\ offset' = start + Len(block) + 1
        /\ paragraph_segments' =
               Append(paragraph_segments,
                      [start |-> start, end |-> start + Len(block), text |-> block])

\* append_text of a block with text
AppendText ==
    /\ AtElement /\ ~Element.is_table
    /\ NormalizeWhitespace(Element.text) # <<>>
    /\ AppendBlock(NormalizeWhitespace(Element.text))
    /\ element_i' = element_i + 1
    /\ UNCHANGED <<pc, elements, table_idx, doc_text, paragraph_records,
                   sentence_records, doc_anchors, build_raised>>
    /\ BuildFrame

\* append_text of a block that normalizes to nothing
AppendNothing ==
    /\ AtElement /\ ~Element.is_table
    /\ NormalizeWhitespace(Element.text) = <<>>
    /\ element_i' = element_i + 1
    /\ UNCHANGED <<pc, elements, chunk_list, offset, paragraph_segments, table_idx,
                   doc_text, paragraph_records, sentence_records, doc_anchors,
                   build_raised>>
    /\ BuildFrame

\* a table whose text block is not empty
AppendTable ==
    /\ AtElement /\ Element.is_table
    /\ TableTextBlock(Element.rows) # <<>>
    /\ AppendBlock(TableTextBlock(Element.rows))
    /\ table_idx' = table_idx + 1
    /\ element_i' = element_i + 1
    /\ UNCHANGED <<pc, elements, doc_text, paragraph_records, sentence_records,
                   doc_anchors, build_raised>>
    /\ BuildFrame

\* a table whose text block is empty
SkipTable ==
    /\ AtElement /\ Element.is_table
    /\ TableTextBlock(Element.rows) = <<>>
    /\ table_idx' = table_idx + 1
    /\ element_i' = element_i + 1
    /\ UNCHANGED <<pc, elements, chunk_list, offset, paragraph_segments, doc_text,
                   paragraph_records, sentence_records, doc_anchors, build_raised>>
    /\ BuildFrame

KeptSegments == SelectSeq(paragraph_segments, LAMBDA seg : seg.end > seg.start)

\* no paragraph segment: ValueError
NoContent ==
    /\ pc = "blocks" /\ element_i >= Len(elements)
    /\ KeptSegments = <<>>
    /\ doc_text' = RStripNewlines(Concat(chunk_list))
    /\ build_raised' = "ValueError"
    /\ pc' = "built"
    /\ UNCHANGED <<elements, element_i, chunk_list, offset, paragraph_segments,
                   table_idx, paragraph_records, sentence_records, doc_anchors>>
    /\ BuildFrame

\* the canonical text and _build_paragraph_anchors
BuildParagraphRecords ==
    /\ pc = "blocks" /\ element_i >= Len(elements)
    /\ KeptSegments # <<>>
    /\ doc_text' = RStripNewlines(Concat(chunk_list))
    /\ paragraph_segments' = KeptSegments
    /\ paragraph_records' = BuildParagraphAnchors(KeptSegments)
    /\ pc' = "sentences"
    /\ UNCHANGED <<elements, element_i, chunk_list, offset, table_idx,
                   sentence_records, doc_anchors, build_raised>>
    /\ BuildFrame

\* _build_sentence_anchors
BuildSentenceRecords ==
    /\ pc = "sentences"
    /\ sentence_records' =
           BuildSentenceAnchors(doc_text, paragraph_segments, paragraph_records)
    /\ pc' = "assemble"
    /\ UNCHANGED <<elements, element_i, chunk_list, offset, paragraph_segments,
                   table_idx, doc_text, paragraph_records, doc_anchors, build_raised>>
    /\ BuildFrame

\* the anchors of all kinds are sorted, linked and given their heading; the
\* table records are none, _process_table returning no cell anchor
AssembleDocument ==
    /\ pc = "assemble"
    /\ doc_anchors' =
           AssignParentHeading(
               LinkNeighborIds(SortByStart(paragraph_records \o sentence_records)),
               <<>>)
    /\ pc' = "built"
    /\ UNCHANGED <<elements, element_i, chunk_list, offset, paragraph_segments,
                   table_idx, doc_text, paragraph_records, sentence_records,
                   build_raised>>
    /\ BuildFrame

NextBuild ==
    \/ AppendText
    \/ AppendNothing
    \/ AppendTable
    \/ SkipTable
    \/ NoContent
    \/ BuildParagraphRecords
    \/ BuildSentenceRecords
    \/ AssembleDocument

SpecBuild == InitBuild /\ [][NextBuild]_vars

Built == pc = "built" /\ build_raised = ""

----------------------------------------------------------------------------
(* Properties of the document CanonicalDocumentBuilder.build returns.      *)

\* C23: the anchors of the document are sorted by start, and prev_id and
\* next_id form a doubly linked chain over that list: the first anchor has no
\* prev_id, the last no next_id, and for every adjacent pair a, b
\* a.next_id = b.anchor_id and b.prev_id = a.anchor_id.
C23_NeighborChain ==
    (Built /\ doc_anchors # <<>>) =>
        /\ \A k \in 1 .. (Len(doc_anchors) - 1) :
              /\ doc_anchors[k].start <= doc_anchors[k + 1].start
              /\ doc_anchors[k].next_id = doc_anchors[k + 1].anchor_id
              /\ doc_anchors[k + 1].prev_id = doc_anchors[k].anchor_id
        /\ doc_anchors[1].prev_id = <<>>
        /\ doc_anchors[Len(doc_anchors)].next_id = <<>>

\* a document of three blocks whose chain has headings, paragraphs and
\* sentences, a sentence anchor sitting between two paragraph anchors
C23_Witness ==
    /\ Built
    /\ Len(paragraph_segments) = 3
    /\ \E k \in 2 .. (Len(doc_anchors) - 1) :
          /\ doc_anchors[k].kind = ANCHOR_KIND_SENTENCE
          /\ doc_anchors[k - 1].kind = ANCHOR_KIND_HEADING
          /\ doc_anchors[k + 1].kind = ANCHOR_KIND_PARAGRAPH
          /\ doc_anchors[k].prev_id = doc_anchors[k - 1].anchor_id
          /\ doc_anchors[k].next_id = doc_anchors[k + 1].anchor_id

\* the heading anchors at or before a position of the document
HeadingsUpTo(position) ==
    {k \in DOMAIN doc_anchors :
        /\ doc_anchors[k].kind = ANCHOR_KIND_HEADING
        /\ doc_anchors[k].start <= position}

\* C24: every anchor that is not a heading has as parent_heading the
\* anchor_id of the heading anchor with the greatest start at or before its
\* own start, and has none exactly when no heading precedes it.
C24_ParentHeading ==
    Built =>
        \A k \in DOMAIN doc_anchors :
            doc_anchors[k].kind # ANCHOR_KIND_HEADING =>
                LET before == HeadingsUpTo(doc_anchors[k].start)
                IN  IF before = {} THEN doc_anchors[k].parent_heading = <<>>
                    ELSE \E h \in before :
                            /\ \A g \in before :
                                  doc_anchors[g].start <= doc_anchors[h].start
                            /\ doc_anchors[k].parent_heading = doc_anchors[h].anchor_id

\* a paragraph before any heading, and sentences under a first and under a
\* second heading
C24_Witness ==
    /\ Built
    /\ \E k, m, n \in DOMAIN doc_anchors :
          /\ doc_anchors[k].kind = ANCHOR_KIND_SENTENCE
          /\ doc_anchors[k].parent_heading = <<>>
          /\ doc_anchors[m].kind = ANCHOR_KIND_SENTENCE
          /\ doc_anchors[m].parent_heading = <<"p">> \o ZeroPad6(2)
          /\ doc_anchors[n].kind \in {ANCHOR_KIND_SENTENCE, ANCHOR_KIND_DEFINITION}
          /\ doc_anchors[n].parent_heading = <<"p">> \o ZeroPad6(3)
          /\ doc_anchors[n].start > doc_anchors[m].start

PrimaryKinds == {ANCHOR_KIND_SENTENCE, ANCHOR_KIND_DEFINITION}

\* the primary anchors inside paragraph segment p, in the order of the list
PrimaryOf(p) ==
    SelectSeq(doc_anchors,
              LAMBDA a : /\ a.kind \in PrimaryKinds
                         /\ paragraph_segments[p].start <= a.start
                         /\ a.end <= paragraph_segments[p].end)

\* C25: every sentence or definition anchor has start < end and lies inside
\* the span of exactly one paragraph segment, and the sentence anchors of
\* one paragraph do not overlap and are in increasing order.
C25_SentencesInsideParagraph ==
    Built =>
        /\ \A k \in DOMAIN doc_anchors :
              doc_anchors[k].kind \in PrimaryKinds =>
                  /\ doc_anchors[k].start < doc_anchors[k].end
                  /\ Cardinality({p \in DOMAIN paragraph_segments :
                         /\ paragraph_segments[p].start <= doc_anchors[k].start
                         /\ doc_anchors[k].end <= paragraph_segments[p].end}) = 1
        /\ \A p \in DOMAIN paragraph_segments :
              \A k \in 1 .. (Len(PrimaryOf(p)) - 1) :
                  PrimaryOf(p)[k].end <= PrimaryOf(p)[k + 1].start

\* two paragraphs, one of them split into two sentences
C25_Witness ==
    /\ Built
    /\ Len(paragraph_segments) >= 2
    /\ \E p \in DOMAIN paragraph_segments :
          /\ Len(PrimaryOf(p)) = 2
          /\ PrimaryOf(p)[1].end < PrimaryOf(p)[2].start

\* C26: the sentence and definition anchors cover their paragraph: every
\* character of a paragraph segment that is not whitespace lies inside some
\* sentence or definition anchor, also in a paragraph made of punctuation
\* only such as "..." or a lone bullet.
C26_ParagraphCovered ==
    Built =>
        \A p \in DOMAIN paragraph_segments :
            \A position \in paragraph_segments[p].start ..
                            (paragraph_segments[p].end - 1) :
                ~IsSpace(At(doc_text, position)) =>
                    \E k \in DOMAIN doc_anchors :
                        /\ doc_anchors[k].kind \in PrimaryKinds
                        /\ doc_anchors[k].start <= position
                        /\ position < doc_anchors[k].end

\* the letter an anchor_id of each kind begins with
KindCode(kind) == kind

\* the anchors of one kind, in the order of the list
OfKind(kind) == SelectSeq(doc_anchors, LAMBDA a : a.kind = kind)

\* the number an anchor_id ends with
RECURSIVE DecimalValue(_)
DecimalValue(digits) ==
    IF digits = <<>> THEN 0
    ELSE 10 * DecimalValue(Pop(digits))
         + (CHOOSE d \in 0 .. 9 : Decimal(d) = <<Last(digits)>>)

\* C28: the anchor_id values of the document are pairwise distinct, and each
\* is the kind code of its anchor (s sentence, d definition, p paragraph,
\* h heading, t table cell) followed by a zero-padded ordinal that increases
\* with the start offset within the kind.
C28_KindPrefixedIds ==
    Built =>
        /\ \A k, m \in DOMAIN doc_anchors :
              k # m => doc_anchors[k].anchor_id # doc_anchors[m].anchor_id
        /\ \A k \in DOMAIN doc_anchors :
              /\ Head(doc_anchors[k].anchor_id) = KindCode(doc_anchors[k].kind)
              /\ Len(doc_anchors[k].anchor_id) = 7
              /\ \A m \in 2 .. 7 : doc_anchors[k].anchor_id[m] \in Digits
        /\ \A kind \in {ANCHOR_KIND_SENTENCE, ANCHOR_KIND_DEFINITION,
                        ANCHOR_KIND_PARAGRAPH, ANCHOR_KIND_HEADING,
                        ANCHOR_KIND_TABLE_CELL} :
              \A k \in 1 .. (Len(OfKind(kind)) - 1) :
                  /\ OfKind(kind)[k].start <= OfKind(kind)[k + 1].start
                  /\ DecimalValue(Tail(OfKind(kind)[k].anchor_id))
                         < DecimalValue(Tail(OfKind(kind)[k + 1].anchor_id))

----------------------------------------------------------------------------
(* document_prep/anchoring.py: build_anchors, one loop iteration at a time, *)
(* over canonical texts with one word longer than the 200 characters       *)
(* _advance_to_boundary scans.  The loops over characters are steps, so    *)
(* that a text of any length is run through without nesting.               *)

MaxChunkFragments == 3

\* a word one character longer than the longest first chunk
LongWord == Repeat("a", MaxChunkSize + AdvanceLimit + 2)

ChunkFragments == << <<"a">>, <<" ">>, <<LF>>, <<LF, LF>>, LongWord >>

\* the texts of at most MaxChunkFragments fragments, one long word at most
ChunkTexts ==
    {Concat([k \in DOMAIN f |-> ChunkFragments[f[k]]]) :
        f \in {g \in UNION {[1 .. n -> DOMAIN ChunkFragments] :
                               n \in 0 .. MaxChunkFragments} :
                  Cardinality({k \in DOMAIN g :
                                 g[k] = Len(ChunkFragments)}) <= 1}}

\* the loop variables of _iter_paragraph_spans, of _chunk_offsets with
\* _advance_to_boundary, of _collect_source_spans, and the anchor list
spanLoop == <<para_spans, scan_cursor, span_start>>
chunkLoop == <<chunk_cursor, chunk_stop, advance_index, advance_from>>
windowLoop == <<pending_anchor, window_i, window_spans, window_current>>
anchorList == <<collected, next_paragraph_no, next_chunk_no>>

NoPending == [prefix |-> "", counter |-> 0, kind |-> "", start |-> 0, end |-> 0]

\* a canonical text whose newlines carry no provenance pointer, as the
\* canonicalizer leaves them for the line breaks it makes itself
InitChunks ==
    /\ pc = "skip"
    /\ text \in ChunkTexts
    /\ char_sources = [k \in DOMAIN text |->
                          IF text[k] = LF THEN None
                          ELSE CanonicalCharSource(k - 1, k)]
    /\ chunk_size \in 1 .. MaxChunkSize
    /\ para_spans = <<>>
    /\ scan_cursor = 0
    /\ span_start = 0
    /\ span_i = 0
    /\ chunk_cursor = 0
    /\ chunk_stop = 0
    /\ advance_index = 0
    /\ advance_from = 0
    /\ pending_anchor = NoPending
    /\ window_i = 0
    /\ window_spans = <<>>
    /\ window_current = None
    /\ collected = <<>>
    /\ next_paragraph_no = 1
    /\ next_chunk_no = 1
    /\ anchors = NoAnchors
    /\ raw_text = <<>>
    /\ treat_as_html = FALSE
    /\ i = 0
    /\ canonical_chars = <<>>
    /\ pending_block_break = FALSE
    /\ last_was_space = FALSE
    /\ skip_stack = <<>>
    /\ again = <<>>
    /\ ordered = <<>>
    /\ plan = NoPlan
    /\ errors = <<>>
    /\ raised = ""
    /\ SentenceIdle
    /\ TableIdle
    /\ FilterIdle
    /\ ViewIdle
    /\ ReaderIdle
    /\ RetryIdle
    /\ StructuredIdle
    /\ BuildIdle
    /\ JobIdle

\* what build_anchors leaves alone while it runs
ChunkFrame ==
    /\ UNCHANGED <<raw_text, treat_as_html, i, canonical_chars, char_sources,
                   pending_block_break, last_was_space, skip_stack, text, again,
                   chunk_size>>
    /\ UNCHANGED planVars
    /\ UNCHANGED sentenceVars
    /\ UNCHANGED tableVars
    /\ UNCHANGED filterVars
    /\ UNCHANGED viewVars
    /\ UNCHANGED readerVars
    /\ UNCHANGED retryVars
    /\ UNCHANGED structuredVars
    /\ UNCHANGED buildVars
    /\ UNCHANGED jobVars

\* text[cursor] == "\n" and cursor + 1 < length and text[cursor + 1] == "\n"
BlankLineAt(cursor) ==
    /\ At(text, cursor) = LF
    /\ cursor + 1 < Len(text)
    /\ At(text, cursor + 1) = LF

\* _iter_paragraph_spans: a newline before or after a paragraph is skipped
SkipNewline ==
    /\ pc = "skip"
    /\ scan_cursor < Len(text) /\ At(text, scan_cursor) = LF
    /\ scan_cursor' = scan_cursor + 1
    /\ UNCHANGED <<pc, para_spans, span_start, span_i, anchors>>
    /\ UNCHANGED chunkLoop /\ UNCHANGED windowLoop /\ UNCHANGED anchorList
    /\ ChunkFrame

\* _iter_paragraph_spans: start = cursor
StartSpan ==
    /\ pc = "skip"
    /\ scan_cursor < Len(text) /\ At(text, scan_cursor) # LF
    /\ span_start' = scan_cursor
    /\ pc' = "scan"
    /\ UNCHANGED <<para_spans, scan_cursor, span_i, anchors>>
    /\ UNCHANGED chunkLoop /\ UNCHANGED windowLoop /\ UNCHANGED anchorList
    /\ ChunkFrame

\* _iter_paragraph_spans: the cursor moves over a character of the paragraph
ScanCharacter ==
    /\ pc = "scan"
    /\ scan_cursor < Len(text) /\ ~BlankLineAt(scan_cursor)
    /\ scan_cursor' = scan_cursor + 1
    /\ UNCHANGED <<pc, para_spans, span_start, span_i, anchors>>
    /\ UNCHANGED chunkLoop /\ UNCHANGED windowLoop /\ UNCHANGED anchorList
    /\ ChunkFrame

\* _iter_paragraph_spans: a blank line or the end of the text; yield start, end
YieldSpan ==
    /\ pc = "scan"
    /\ ~(scan_cursor < Len(text) /\ ~BlankLineAt(scan_cursor))
    /\ para_spans' = Append(para_spans,
                            [start |-> span_start, end |-> scan_cursor])
    /\ pc' = "skip"
    /\ UNCHANGED <<scan_cursor, span_start, span_i, anchors>>
    /\ UNCHANGED chunkLoop /\ UNCHANGED windowLoop /\ UNCHANGED anchorList
    /\ ChunkFrame

\* paragraph_spans = list(_iter_paragraph_spans(canonical_text)) is complete
ListSpans ==
    /\ pc = "skip"
    /\ scan_cursor >= Len(text)
    /\ pc' = "paragraphs"
    /\ UNCHANGED <<span_i, anchors>>
    /\ UNCHANGED spanLoop /\ UNCHANGED chunkLoop /\ UNCHANGED windowLoop
    /\ UNCHANGED anchorList
    /\ ChunkFrame

\* the paragraph span the for loop of build_anchors is at
Span == para_spans[span_i + 1]

\* _make_anchor is entered: _collect_source_spans starts on its window
EnterMakeAnchor(prefix, counter, kind, start, end) ==
    /\ pending_anchor' = [prefix |-> prefix, counter |-> counter,
                          kind |-> kind, start |-> start, end |-> end]
    /\ window_i' = start
    /\ window_spans' = <<>>
    /\ window_current' = None
    /\ pc' = "collect"

\* for start, end in paragraph_spans: the paragraph anchor is begun
TakeParagraph ==
    /\ pc = "paragraphs" /\ span_i < Len(para_spans)
    /\ IF Span.end <= Span.start
       THEN /\ span_i' = span_i + 1
            /\ UNCHANGED pc /\ UNCHANGED windowLoop
       ELSE /\ EnterMakeAnchor("s", next_paragraph_no, "paragraph",
                               Span.start, Span.end)
            /\ UNCHANGED span_i
    /\ UNCHANGED anchors
    /\ UNCHANGED spanLoop /\ UNCHANGED chunkLoop /\ UNCHANGED anchorList
    /\ ChunkFrame

\* _collect_source_spans: one pointer of char_sources[start:end]
CollectPointer ==
    /\ pc = "collect"
    /\ window_i < Min(pending_anchor.end, Len(char_sources))
    /\ LET pointer == At(char_sources, window_i)
       IN  IF pointer = None
           THEN /\ window_current' = None
                /\ UNCHANGED window_spans
           ELSE IF /\ window_current # None
                   /\ pointer.source_id = window_current.source_id
                   /\ pointer.start = window_current.end
                THEN LET merged == SourceSpan(window_current.start, pointer.end)
                     IN  /\ window_current' = merged
                         /\ window_spans' =
                               [window_spans EXCEPT ![Len(window_spans)] = merged]
                ELSE LET fresh == SourceSpan(pointer.start, pointer.end)
                     IN  /\ window_current' = fresh
                         /\ window_spans' = Append(window_spans, fresh)
    /\ window_i' = window_i + 1
    /\ UNCHANGED <<pc, pending_anchor, span_i, anchors>>
    /\ UNCHANGED spanLoop /\ UNCHANGED chunkLoop /\ UNCHANGED anchorList
    /\ ChunkFrame

\* the window is read through
WindowDone == window_i >= Min(pending_anchor.end, Len(char_sources))

\* the Anchor _make_anchor returns (hashes and hints left out)
MadeAnchor ==
    [anchor_id |-> <<pending_anchor.prefix, pending_anchor.counter>>,
     kind |-> pending_anchor.kind,
     start |-> pending_anchor.start, end |-> pending_anchor.end,
     source_spans |-> window_spans]

\* _chunk_offsets goes on after a yield: it ends with the chunk that reaches
\* the end of the paragraph, and moves its cursor otherwise
ResumeChunkOffsets ==
    IF chunk_stop = Span.end
    THEN /\ span_i' = span_i + 1
         /\ pc' = "paragraphs"
         /\ UNCHANGED chunk_cursor
    ELSE /\ chunk_cursor' = chunk_stop
         /\ pc' = "chunks"
         /\ UNCHANGED span_i

\* the paragraph anchor is appended; a paragraph longer than chunk_size is
\* handed to _chunk_offsets
ParagraphAnchored ==
    /\ pc = "collect" /\ WindowDone /\ pending_anchor.kind = "paragraph"
    /\ collected' = Append(collected, MadeAnchor)
    /\ next_paragraph_no' = next_paragraph_no + 1
    /\ IF Span.end - Span.start > chunk_size
       THEN /\ chunk_cursor' = Span.start
            /\ pc' = "chunks"
            /\ UNCHANGED span_i
       ELSE /\ span_i' = span_i + 1
            /\ pc' = "paragraphs"
            /\ UNCHANGED chunk_cursor
    /\ UNCHANGED <<next_chunk_no, chunk_stop, advance_index, advance_from, anchors>>
    /\ UNCHANGED spanLoop /\ UNCHANGED windowLoop
    /\ ChunkFrame

\* _chunk_offsets: the loop test, and the cut at cursor + chunk_size
NextChunk ==
    /\ pc = "chunks"
    /\ IF chunk_cursor >= Span.end
       THEN /\ span_i' = span_i + 1
            /\ pc' = "paragraphs"
            /\ UNCHANGED <<chunk_stop, advance_index, advance_from>>
       ELSE LET cut == Min(Span.end, chunk_cursor + chunk_size)
            IN  /\ IF cut < Span.end
                   THEN /\ advance_from' = cut
                        /\ advance_index' = cut
                        /\ pc' = "advance"
                        /\ UNCHANGED chunk_stop
                   ELSE /\ chunk_stop' = cut
                        /\ pc' = "yield"
                        /\ UNCHANGED <<advance_index, advance_from>>
                /\ UNCHANGED span_i
    /\ UNCHANGED <<chunk_cursor, anchors>>
    /\ UNCHANGED spanLoop /\ UNCHANGED windowLoop /\ UNCHANGED anchorList
    /\ ChunkFrame

\* _advance_to_boundary never looks further
AdvanceBreaksNever(index, candidate) == FALSE

\* _advance_to_boundary: if index - candidate > 200: break
AdvanceBreaks(index, candidate) == index - candidate > AdvanceLimit

\* return index if index > candidate else candidate
AdvanceResult(index, candidate) == IF index > candidate THEN index ELSE candidate

\* _advance_to_boundary: the index moves over a character that is no space
AdvanceStep ==
    /\ pc = "advance"
    /\ advance_index < Span.end /\ ~IsSpace(At(text, advance_index))
    /\ advance_index' = advance_index + 1
    /\ IF AdvanceBreaks(advance_index + 1, advance_from)
       THEN /\ chunk_stop' = AdvanceResult(advance_index + 1, advance_from)
            /\ pc' = "yield"
       ELSE UNCHANGED <<chunk_stop, pc>>
    /\ UNCHANGED <<chunk_cursor, advance_from, span_i, anchors>>
    /\ UNCHANGED spanLoop /\ UNCHANGED windowLoop /\ UNCHANGED anchorList
    /\ ChunkFrame

\* _advance_to_boundary: a space or the upper bound
AdvanceStop ==
    /\ pc = "advance"
    /\ ~(advance_index < Span.end /\ ~IsSpace(At(text, advance_index)))
    /\ chunk_stop' = AdvanceResult(advance_index, advance_from)
    /\ pc' = "yield"
    /\ UNCHANGED <<chunk_cursor, advance_index, advance_from, span_i, anchors>>
    /\ UNCHANGED spanLoop /\ UNCHANGED windowLoop /\ UNCHANGED anchorList
    /\ ChunkFrame

\* for chunk_start, chunk_end in chunk_starts: the chunk anchor is begun
TakeChunk ==
    /\ pc = "yield"
    /\ IF chunk_stop - chunk_cursor <= 0
       THEN /\ ResumeChunkOffsets
            /\ UNCHANGED windowLoop
       ELSE /\ EnterMakeAnchor("c", next_chunk_no, "chunk", chunk_cursor,
                               chunk_stop)
            /\ UNCHANGED <<span_i, chunk_cursor>>
    /\ UNCHANGED <<chunk_stop, advance_index, advance_from, anchors>>
    /\ UNCHANGED spanLoop /\ UNCHANGED anchorList
    /\ ChunkFrame

\* the chunk anchor is appended and _chunk_offsets goes on
ChunkAnchored ==
    /\ pc = "collect" /\ WindowDone /\ pending_anchor.kind = "chunk"
    /\ collected' = Append(collected, MadeAnchor)
    /\ next_chunk_no' = next_chunk_no + 1
    /\ ResumeChunkOffsets
    /\ UNCHANGED <<next_paragraph_no, chunk_stop, advance_index, advance_from,
                   anchors>>
    /\ UNCHANGED spanLoop /\ UNCHANGED windowLoop
    /\ ChunkFrame

\* anchors.sort(key=lambda a: a.start); return AnchorMap(...)
ReturnAnchorMap ==
    /\ pc = "paragraphs" /\ span_i >= Len(para_spans)
    /\ anchors' = [raised |-> "", anchors |-> SortByStart(collected),
                   canonical_length |-> Len(text)]
    /\ pc' = "chunked"
    /\ UNCHANGED span_i
    /\ UNCHANGED spanLoop /\ UNCHANGED chunkLoop /\ UNCHANGED windowLoop
    /\ UNCHANGED anchorList
    /\ ChunkFrame

NextChunks ==
    \/ SkipNewline
    \/ StartSpan
    \/ ScanCharacter
    \/ YieldSpan
    \/ ListSpans
    \/ TakeParagraph
    \/ CollectPointer
    \/ ParagraphAnchored
    \/ NextChunk
    \/ AdvanceStep
    \/ AdvanceStop
    \/ TakeChunk
    \/ ChunkAnchored
    \/ ReturnAnchorMap

SpecChunks == InitChunks /\ [][NextChunks]_vars

\* build_anchors is sequential code: a step that can be taken is taken
SpecChunksLive == SpecChunks /\ WF_vars(NextChunks)

\* the chunk anchors inside paragraph span p, in the order of the list
ChunksOf(p) ==
    SelectSeq(anchors.anchors,
              LAMBDA a : /\ a.kind = "chunk"
                         /\ para_spans[p].start <= a.start
                         /\ a.end <= para_spans[p].end)

\* the chunk anchors of every paragraph longer than chunk_size partition it
ChunksPartition ==
    pc = "chunked" =>
        \A p \in DOMAIN para_spans :
            para_spans[p].end - para_spans[p].start > chunk_size =>
                LET chunks == ChunksOf(p)
                IN  /\ chunks # <<>>
                    /\ chunks[1].start = para_spans[p].start
                    /\ chunks[Len(chunks)].end = para_spans[p].end
                    /\ \A k \in 1 .. (Len(chunks) - 1) :
                          chunks[k + 1].start = chunks[k].end
                    /\ \A k \in DOMAIN chunks :
                          /\ chunks[k].start < chunks[k].end
                          /\ chunks[k].end - chunks[k].start
                                 <= chunk_size + AdvanceLimit + 1

\* C29: for every canonical text and every chunk_size >= 1 build_anchors
\* terminates, and the chunk anchors of each paragraph longer than chunk_size
\* partition it: each chunk is non-empty, the first starts at the paragraph's
\* start, each next one where the previous ended, the last ends at the
\* paragraph's end, and no chunk is longer than chunk_size + 201 characters.
C29_ChunksPartitionAndTerminate == []ChunksPartition /\ <>(pc = "chunked")

\* a word longer than the scan of _advance_to_boundary was cut into chunks,
\* the first of the greatest length allowed
C29_Witness ==
    /\ pc = "chunked"
    /\ \E p \in DOMAIN para_spans :
          /\ Len(ChunksOf(p)) >= 2
          /\ ChunksOf(p)[1].end - ChunksOf(p)[1].start
                 = chunk_size + AdvanceLimit + 1

----------------------------------------------------------------------------
(* gateway/service.py and gateway/job_store.py: the event loop submits     *)
(* jobs and reads their status; every job is processed by _process_job in  *)
(* a thread of its own (asyncio.to_thread).  The threads meet in the       *)
(* JobStore, whose methods hold its lock from their first to their last    *)
(* statement; each statement inside is a step.                             *)

MaxJobs == 2

\* the job ids uuid4 hands out
Jobs == 1 .. MaxJobs

\* Python's None in a field of a JobRecord
Null == "<None>"
\* no record under the job id: _records.get(job_id) is None
NoJob == [job_id |-> 0, status |-> Null, response_text |-> Null,
          error |-> Null, updated_at |-> 0]

\* JobRecord(job_id=job_id, request=request, status="pending", ...)
JobRecord(job_id) ==
    [job_id |-> job_id, status |-> "pending", response_text |-> Null,
     error |-> Null, updated_at |-> 0]

\* the calls inside the try block of _process_job, in order
Steps == <<"_resolve_manifest_row", "_load_segment", "_build_document_text",
           "_build_openai_payload", "create_response", "extract_text">>

\* str(exc) of the exceptions the steps raise
ErrorTexts == {"Segment not found in manifest",
               "Manifest row missing file or segment number"}

\* the text extract_text returns
ResponseText == "response"

\* the owner of the lock: nobody, the event loop, or the thread of a job
LockFree == <<>>
EventLoop == <<"loop">>
WorkerOf(j) == <<"worker", j>>

\* update(job_id, status="running")
RunningChanges == << <<"status", "running">> >>

\* update(job_id, status="succeeded", response_text=response_text, ...)
SucceededChanges(response_text) ==
    << <<"status", "succeeded">>, <<"response_text", response_text>> >>

\* the handler records the error and leaves the status alone
FailedChangesErrorOnly(error) == << <<"error", error>> >>

\* update(job_id, status="failed", error=str(exc))
FailedChanges(error) == << <<"status", "failed">>, <<"error", error>> >>

\* setattr(record, key, value)
Setattr(record, change) == [record EXCEPT ![change[1]] = change[2]]

InitJobs ==
    /\ pc = "gateway"
    /\ job_table = [j \in Jobs |-> NoJob]
    /\ store_lock = LockFree
    /\ loop_pc = "idle"
    /\ loop_arg = 0
    /\ loop_got = NoJob
    /\ worker_pc = [j \in Jobs |-> "unborn"]
    /\ worker_changes = [j \in Jobs |-> <<>>]
    /\ worker_step = [j \in Jobs |-> 0]
    /\ worker_exc = [j \in Jobs |-> Null]
    /\ anchors = NoAnchors
    /\ raw_text = <<>>
    /\ treat_as_html = FALSE
    /\ i = 0
    /\ canonical_chars = <<>>
    /\ char_sources = <<>>
    /\ pending_block_break = FALSE
    /\ last_was_space = FALSE
    /\ skip_stack = <<>>
    /\ text = <<>>
    /\ again = <<>>
    /\ chunk_size = 0
    /\ ordered = <<>>
    /\ plan = NoPlan
    /\ errors = <<>>
    /\ raised = ""
    /\ SentenceIdle
    /\ TableIdle
    /\ FilterIdle
    /\ ViewIdle
    /\ ReaderIdle
    /\ RetryIdle
    /\ StructuredIdle
    /\ BuildIdle
    /\ ChunkIdle

\* what the gateway leaves alone
JobFrame ==
    /\ UNCHANGED pc
    /\ UNCHANGED canonVars /\ UNCHANGED anchorVars
    /\ UNCHANGED planVars
    /\ UNCHANGED sentenceVars
    /\ UNCHANGED tableVars
    /\ UNCHANGED filterVars
    /\ UNCHANGED viewVars
    /\ UNCHANGED readerVars
    /\ UNCHANGED retryVars
    /\ UNCHANGED structuredVars
    /\ UNCHANGED buildVars
    /\ UNCHANGED chunkVars

loopVars == <<loop_pc, loop_arg, loop_got>>
workerVars == <<worker_pc, worker_changes, worker_step, worker_exc>>

\* with self._lock: the lock is taken when nobody holds it
Acquire(thread) == store_lock = LockFree /\ store_lock' = thread

\* submit_job: a fresh job id; JobStore.create takes the lock
CreateAcquire ==
    /\ loop_pc = "idle"
    /\ \E j \in Jobs :
          /\ worker_pc[j] = "unborn"
          /\ \A k \in Jobs : k < j => worker_pc[k] # "unborn"
          /\ loop_arg' = j
    /\ Acquire(EventLoop)
    /\ loop_pc' = "create"
    /\ UNCHANGED <<job_table, loop_got>> /\ UNCHANGED workerVars
    /\ JobFrame

\* JobStore.create: self._records[job.job_id] = job
CreateInsert ==
    /\ loop_pc = "create" /\ store_lock = EventLoop
    /\ job_table' = [job_table EXCEPT ![loop_arg] = JobRecord(loop_arg)]
    /\ loop_pc' = "created"
    /\ UNCHANGED <<store_lock, loop_arg, loop_got>> /\ UNCHANGED workerVars
    /\ JobFrame

\* JobStore.create returns; submit_job: asyncio.create_task(self._run_job(job_id))
CreateRelease ==
    /\ loop_pc = "created" /\ store_lock = EventLoop
    /\ store_lock' = LockFree
    /\ worker_pc' = [worker_pc EXCEPT ![loop_arg] = "scheduled"]
    /\ loop_pc' = "idle"
    /\ UNCHANGED <<job_table, loop_arg, loop_got, worker_changes, worker_step,
                   worker_exc>>
    /\ JobFrame

\* JobStore.get(job_id) takes the lock
GetAcquire ==
    /\ loop_pc = "idle"
    /\ \E j \in Jobs : loop_arg' = j
    /\ Acquire(EventLoop)
    /\ loop_pc' = "get"
    /\ UNCHANGED <<job_table, loop_got>> /\ UNCHANGED workerVars
    /\ JobFrame

\* JobStore.get: return self._records.get(job_id)
GetReturn ==
    /\ loop_pc = "get" /\ store_lock = EventLoop
    /\ loop_got' = job_table[loop_arg]
    /\ store_lock' = LockFree
    /\ loop_pc' = "idle"
    /\ UNCHANGED <<job_table, loop_arg>> /\ UNCHANGED workerVars
    /\ JobFrame

\* JobStore.update(job_id, **changes) takes the lock
UpdateAcquire(j, changes, next_pc) ==
    /\ Acquire(WorkerOf(j))
    /\ worker_changes' = [worker_changes EXCEPT ![j] = changes]
    /\ worker_pc' = [worker_pc EXCEPT ![j] = next_pc]

\* _process_job: record = self.job_store.update(job_id, status="running")
ProcessJob(j) ==
    /\ worker_pc[j] = "scheduled"
    /\ UpdateAcquire(j, RunningChanges, "set_running")
    /\ UNCHANGED <<job_table, worker_step, worker_exc>> /\ UNCHANGED loopVars
    /\ JobFrame

\* JobStore.update: for key, value in changes.items(): setattr(record, key, value)
UpdateSetattr(j) ==
    /\ worker_pc[j] \in {"set_running", "set_final"} /\ store_lock = WorkerOf(j)
    /\ job_table[j] # NoJob
    /\ worker_changes[j] # <<>>
    /\ job_table' = [job_table EXCEPT
                        ![j] = Setattr(@, Head(worker_changes[j]))]
    /\ worker_changes' = [worker_changes EXCEPT ![j] = Tail(@)]
    /\ UNCHANGED <<store_lock, worker_pc, worker_step, worker_exc>>
    /\ UNCHANGED loopVars
    /\ JobFrame

\* JobStore.update: record is None: return None, and _process_job returns;
\* else record.updated_at = now; return record.  After the first update
\* _process_job enters its try block, after the last it returns
UpdateReturn(j) ==
    /\ worker_pc[j] \in {"set_running", "set_final"} /\ store_lock = WorkerOf(j)
    /\ job_table[j] = NoJob \/ worker_changes[j] = <<>>
    /\ store_lock' = LockFree
    /\ IF job_table[j] = NoJob
       THEN /\ worker_pc' = [worker_pc EXCEPT ![j] = "returned"]
            /\ UNCHANGED <<job_table, worker_step>>
       ELSE /\ job_table' = [job_table EXCEPT ![j].updated_at = @ + 1]
            /\ IF worker_pc[j] = "set_running"
               THEN /\ worker_pc' = [worker_pc EXCEPT ![j] = "try"]
                    /\ worker_step' = [worker_step EXCEPT ![j] = 1]
               ELSE /\ worker_pc' = [worker_pc EXCEPT ![j] = "returned"]
                    /\ UNCHANGED worker_step
    /\ UNCHANGED <<worker_changes, worker_exc>> /\ UNCHANGED loopVars
    /\ JobFrame

\* a call inside the try block returns
StepReturns(j) ==
    /\ worker_pc[j] = "try"
    /\ worker_step[j] <= Len(Steps)
    /\ worker_step' = [worker_step EXCEPT ![j] = @ + 1]
    /\ UNCHANGED <<job_table, store_lock, worker_pc, worker_changes, worker_exc>>
    /\ UNCHANGED loopVars
    /\ JobFrame

\* a call inside the try block raises: control leaves the block
StepRaises(j) ==
    /\ worker_pc[j] = "try"
    /\ worker_step[j] <= Len(Steps)
    /\ \E e \in ErrorTexts : worker_exc' = [worker_exc EXCEPT ![j] = e]
    /\ worker_pc' = [worker_pc EXCEPT ![j] = "except"]
    /\ worker_step' = [worker_step EXCEPT ![j] = 0]
    /\ UNCHANGED <<job_table, store_lock, worker_changes>>
    /\ UNCHANGED loopVars
    /\ JobFrame

\* _process_job: self.job_store.update(job_id, status="succeeded", ...)
UpdateSucceeded(j) ==
    /\ worker_pc[j] = "try"
    /\ worker_step[j] > Len(Steps)
    /\ UpdateAcquire(j, SucceededChanges(ResponseText), "set_final")
    /\ UNCHANGED <<job_table, worker_step, worker_exc>> /\ UNCHANGED loopVars
    /\ JobFrame

\* except Exception as exc: self.job_store.update(job_id, status="failed", ...)
UpdateFailed(j) ==
    /\ worker_pc[j] = "except"
    /\ UpdateAcquire(j, FailedChanges(worker_exc[j]), "set_final")
    /\ UNCHANGED <<job_table, worker_step, worker_exc>> /\ UNCHANGED loopVars
    /\ JobFrame

NextJobs ==
    \/ CreateAcquire
    \/ CreateInsert
    \/ CreateRelease
    \/ GetAcquire
    \/ GetReturn
    \/ \E j \in Jobs : ProcessJob(j)
    \/ \E j \in Jobs : UpdateSetattr(j)
    \/ \E j \in Jobs : UpdateReturn(j)
    \/ \E j \in Jobs : StepReturns(j)
    \/ \E j \in Jobs : StepRaises(j)
    \/ \E j \in Jobs : UpdateSucceeded(j)
    \/ \E j \in Jobs : UpdateFailed(j)

SpecJobs == InitJobs /\ [][NextJobs]_vars

\* the steps a status may take: created as pending, set to running by
\* _process_job, and left as succeeded or failed
ForwardSteps ==
    {<<Null, "pending">>, <<"pending", "running">>,
     <<"running", "succeeded">>, <<"running", "failed">>}

StatusForward ==
    \A j \in Jobs :
        \/ job_table'[j].status = job_table[j].status
        \/ <<job_table[j].status, job_table'[j].status>> \in ForwardSteps

\* _process_job has returned: succeeded if no step raised, failed with the
\* text of the exception otherwise
JobsSettled ==
    \A j \in Jobs :
        worker_pc[j] = "returned" =>
            IF worker_exc[j] = Null
            THEN /\ job_table[j].status = "succeeded"
                 /\ job_table[j].error = Null
            ELSE /\ job_table[j].status = "failed"
                 /\ job_table[j].error = worker_exc[j]

\* a record as one of the calls of the gateway leaves it
Whole(record) ==
    \/ /\ record.status = "pending" /\ record.updated_at = 0
       /\ record.response_text = Null /\ record.error = Null
    \/ /\ record.status = "running" /\ record.updated_at = 1
       /\ record.response_text = Null /\ record.error = Null
    \/ /\ record.status = "succeeded" /\ record.updated_at = 2
       /\ record.response_text = ResponseText /\ record.error = Null
    \/ /\ record.status = "failed" /\ record.updated_at = 2
       /\ record.response_text = Null /\ record.error \in ErrorTexts

\* no record is lost: a job that was created is in the store under its id;
\* none is corrupted: outside an update of its own a record is whole, and
\* JobStore.get returns nothing or a whole record
StoreSound ==
    /\ \A j \in Jobs :
          /\ worker_pc[j] # "unborn" =>
                job_table[j] # NoJob /\ job_table[j].job_id = j
          /\ (job_table[j] # NoJob /\ store_lock # WorkerOf(j)) =>
                Whole(job_table[j])
    /\ loop_got # NoJob => Whole(loop_got)

\* C30: a job's status only moves forward along pending -> running ->
\* (succeeded | failed) and never changes once it is succeeded or failed;
\* every job _process_job set to running is succeeded or failed when
\* _process_job returns, failed with the error text recorded when a step
\* raised; and with create, get and update called from several threads no
\* record is lost or corrupted.
C30_StatusMovesForward ==
    /\ [][StatusForward]_vars
    /\ [](JobsSettled /\ StoreSound)

\* two jobs were processed by two threads: one succeeded, one failed
C30_Witness ==
    \E j, k \in Jobs :
        /\ worker_pc[j] = "returned" /\ job_table[j].status = "succeeded"
        /\ worker_pc[k] = "returned" /\ job_table[k].status = "failed"

====
